---- MODULE Spec2Model ----
(***************************************************************************)
(* Verification model of the performance/caching layer of legisync:        *)
(*   - PineconeConnectionPool  (backend/connection_pool.py)                *)
(*   - CacheService            (backend/cache_service.py)                  *)
(*   - PerformanceMonitor      (backend/performance_monitor.py)            *)
(*   - OptimizedEmbeddingsService (backend/embeddings_service.py)          *)
(* Each component has its own specification (PoolSpec, CacheSpec, ...);    *)
(* the variables of the other components stay unchanged in it.             *)
(***************************************************************************)
EXTENDS Integers, Sequences, FiniteSets, TLC

(***************************************************************************)
(* Bounds of the model                                                     *)
(***************************************************************************)
\* number of concurrent asyncio tasks that use the pool
NumTasks == 3
\* max_connections is a constructor argument; Init draws it from 1..MaxPoolLimit
MaxPoolLimit == 2
\* retry_attempts is a constructor argument; Init draws it from 0..MaxRetryAttempts
MaxRetryAttempts == 2
\* total number of get_connection() calls made in one behaviour
MaxCalls == 3
\* memory_cache_size is a constructor argument (default 1000)
MemoryCacheSize == 1
\* maxsize of the similarity cache (500 in the source), scaled down
SimilarityMaxSize == 2
\* seconds that pass in one step of the clock
TickStep == 900
\* depth at which the interpreter raises RecursionError. The interpreter's limit
\* (1000 frames) exceeds the longest chain of distinct similarity entries (500);
\* the model keeps that relation, so that only a cycle reaches the limit.
RecursionLimit == SimilarityMaxSize + 1

\* max_request_history is a constructor argument (default 10000); Init draws
\* it from 1..MaxRequestHistory
MaxRequestHistory == 2
\* number of record_request() calls made in one behaviour of MonitorSpec
MaxRecords == 3
\* number of times the clock advances in one behaviour of MonitorSpec
MaxTicks == 2
\* number of record_request() calls made in one behaviour of AlertSpec
MaxAlertRecords == 20
\* number of asyncio tasks that call embed_query
NumEmbedTasks == 1
\* number of embed_query / embed_documents calls made in one behaviour
MaxEmbedCalls == 2
\* batch_size is a constructor argument (default 100); Init draws it from
\* 1..MaxBatchSize
MaxBatchSize == 2
\* length of the list of queries passed to warm_cache
MaxWarmQueries == 2
\* number of requests recorded in one behaviour of PercentileSpec, which is
\* also the capacity of its buffer: from 21 records on, the positions of the
\* two percentiles differ
MaxWindow == 21
\* number of those requests that have the long duration
MaxSlowRecords == 2
\* number of sampling tasks start_monitoring creates in one behaviour
MaxSamplerTasks == 2
\* number of snapshots appended to system_history in one behaviour
MaxSnapshots == 2
\* number of coroutines that call stop_monitoring
NumStopCallers == 2
\* number of /rag requests handled in one behaviour
MaxRagRequests == 3

Tasks == 1..NumTasks
None == 0
\* identities (id(connection)) of connection objects; one more than can be live
ConnIds == 1..(MaxPoolLimit + 1)

VARIABLES
    \* ---- PineconeConnectionPool ----
    max_connections,  \* self.max_connections
    retry_attempts,   \* self.retry_attempts
    pool,             \* self._pool      : list of idle connections
    in_use,           \* self._in_use    : set of id(connection)
    lock,             \* self._lock      : the task holding it, or None
    stats,            \* self._stats
    pc,               \* position of each task in get_connection
    connection,       \* local variable `connection` of each call
    retry_count,      \* local variable `retry_count` of each call
    outcome,          \* how the caller's block ended: "normal" / "exception"
    released,         \* number of removals from _in_use made by the call's finally
    immediate,        \* the call got its connection in the first locked block
    calls,            \* number of get_connection() calls started so far
    lastRelease,      \* the last release_connection() call: counts before and after
    \* ---- CacheService ----
    memory_cache,     \* self.memory_cache     : TTLCache, exact tier
    similarity_cache, \* self.similarity_cache : TTLCache, normalized query -> query
    lastOp,           \* the last cache operation and what it returned
    \* ---- PerformanceMonitor ----
    max_request_history, \* self.max_request_history
    request_history,     \* self.request_history : deque(maxlen=max_request_history)
    perf_stats,          \* self.stats
    endpoint_stats,      \* self.endpoint_stats
    now,                 \* what time.time() returns, in seconds
    ticks,               \* number of times the clock has advanced
    sum_durations,       \* d1 + ... + dK of the K requests recorded so far
    lastMon,             \* the last monitor query and what it returned
    export,              \* the export_metrics call: position, `data`, the file
    monitoring,          \* self._monitoring
    monitor_task,        \* self._monitor_task : the task created last, or None
    sampler,             \* the state of each monitor_loop task
    system_history,      \* self.system_history : the task that took each snapshot
    stop_wait,           \* per caller of stop_monitoring: the task it awaits
    lastSampling,        \* the last step of start_monitoring / stop_monitoring
    \* ---- OptimizedEmbeddingsService ----
    batch_size,       \* self.batch_size
    embed_cache,      \* self.cache : text of a query -> its embedding
    embed_stats,      \* self.stats
    eq,               \* the embed_query call of each task: position and locals
    doc,              \* the embed_documents call in progress
    embed_calls,      \* number of embed_query / embed_documents calls started
    compute_calls,    \* per text: compute calls issued for it by embed_query
    returned,         \* per text: the vector embed_query returned last
    lastEmbed,        \* the last call that ended and what its caller got
    warm,             \* the list common_queries of the warm_cache call, or <<>>
    \* ---- the /rag request handler ----
    vectorstore,      \* the global `vectorstore` is not None
    req,              \* the /rag requests: position and locals of each handler
    heap,             \* the dictionaries the handlers build: name -> content
    set_content       \* per dictionary: its content when set_cached_result got it

poolVars == <<max_connections, retry_attempts, pool, in_use, lock, stats, pc,
              connection, retry_count, outcome, released, immediate, calls>>

cacheVars == <<memory_cache, similarity_cache, lastOp>>

\* what the explicit release_connection() calls left behind
compatVars == <<lastRelease>>

monitorVars == <<max_request_history, request_history, perf_stats, endpoint_stats,
                 now, ticks, sum_durations, lastMon>>

embedVars == <<batch_size, embed_cache, embed_stats, eq, doc, embed_calls,
               compute_calls, returned, lastEmbed>>

\* everything outside the connection pool / the result cache / the monitor /
\* the embeddings service (which stores its vectors in the result cache)
\* the warm_cache call of the embeddings service
warmVars == <<warm>>

\* the export_metrics call of the monitor
exportVars == <<export>>

\* the /rag request handler
ragVars == <<vectorstore, req, heap, set_content>>

\* the background sampling of the monitor
samplingVars == <<monitoring, monitor_task, sampler, system_history, stop_wait,
                  lastSampling>>

nonPoolVars == <<compatVars, cacheVars, monitorVars, embedVars, warmVars,
    exportVars, samplingVars, ragVars>>
nonCacheVars == <<poolVars, compatVars, monitorVars, embedVars, warmVars,
    exportVars, samplingVars, ragVars>>
nonMonitorVars == <<poolVars, compatVars, cacheVars, embedVars, warmVars,
    exportVars, samplingVars, ragVars>>
nonEmbedVars == <<poolVars, compatVars, monitorVars, warmVars,
    exportVars, samplingVars, ragVars>>

vars == <<poolVars, compatVars, cacheVars, monitorVars, embedVars, warmVars,
    exportVars, samplingVars, ragVars>>

(***************************************************************************)
(* PineconeConnectionPool                                                  *)
(***************************************************************************)

\* no release_connection() call was made yet
NoRelease == [made |-> FALSE]

\* PineconeConnectionPool.__init__
PoolInit ==
    /\ lastRelease = NoRelease
    /\ max_connections \in 1..MaxPoolLimit
    /\ retry_attempts \in 0..MaxRetryAttempts
    /\ pool = <<>>
    /\ in_use = {}
    /\ lock = None
    /\ stats = [connections_created |-> 0, connections_reused |-> 0,
                connections_failed |-> 0, active_connections |-> 0,
                total_requests |-> 0]
    /\ pc = [p \in Tasks |-> "idle"]
    /\ connection = [p \in Tasks |-> None]
    /\ retry_count = [p \in Tasks |-> 0]
    /\ outcome = [p \in Tasks |-> "none"]
    /\ released = [p \in Tasks |-> 0]
    /\ immediate = [p \in Tasks |-> FALSE]
    /\ calls = 0

\* elements of a sequence
Range(s) == {s[i] : i \in 1..Len(s)}

\* connection objects that are alive (referenced by the pool or by a caller)
LiveConnections ==
    (Range(pool) \cup in_use \cup {connection[p] : p \in Tasks}) \ {None}

\* Pinecone(api_key=...): a new object. The id of a dead object is referenced
\* nowhere (release removes it from _in_use), so which free id the allocator
\* hands out cannot be observed; the model takes the smallest one.
NewConnection ==
    CHOOSE c \in ConnIds \ LiveConnections :
        \A d \in ConnIds \ LiveConnections : c <= d

\* list.pop(): the last element is taken
PoolTop == pool[Len(pool)]
PoolPopped == SubSeq(pool, 1, Len(pool) - 1)

\* a caller enters `async with pool.get_connection()`
Start(p) ==
    /\ pc[p] \in {"idle", "done", "failed"}
    /\ calls < MaxCalls
    /\ calls' = calls + 1
    /\ pc' = [pc EXCEPT ![p] = "acquire"]
    /\ connection' = [connection EXCEPT ![p] = None]
    /\ retry_count' = [retry_count EXCEPT ![p] = 0]
    /\ outcome' = [outcome EXCEPT ![p] = "none"]
    /\ released' = [released EXCEPT ![p] = 0]
    /\ immediate' = [immediate EXCEPT ![p] = FALSE]
    /\ UNCHANGED <<nonPoolVars, max_connections, retry_attempts, pool, in_use, lock, stats>>

\* first `async with self._lock` block: reuse an idle connection
ReuseFirst(p) ==
    /\ pool # <<>>
    /\ connection' = [connection EXCEPT ![p] = PoolTop]
    /\ pool' = PoolPopped
    /\ in_use' = in_use \cup {PoolTop}
    /\ stats' = [stats EXCEPT !.total_requests = @ + 1,
                              !.connections_reused = @ + 1,
                              !.active_connections = @ + 1]
    /\ immediate' = [immediate EXCEPT ![p] = TRUE]
    /\ pc' = [pc EXCEPT ![p] = "holding"]
    /\ UNCHANGED lock

\* (mutant) off-by-one in the limit test
UnderLimitInclusive == Cardinality(in_use) <= max_connections

\* the condition under which the first locked block creates a connection
UnderLimit == Cardinality(in_use) < max_connections

\* first locked block: the pool is empty and the limit is not reached; the
\* connection is created while the lock is held
BeginCreate(p) ==
    /\ pool = <<>>
    /\ UnderLimit
    /\ lock' = p
    /\ stats' = [stats EXCEPT !.total_requests = @ + 1]
    /\ pc' = [pc EXCEPT ![p] = "creating"]
    /\ UNCHANGED <<connection, pool, in_use, immediate>>

\* first locked block: pool exhausted, only a warning is logged
Exhausted(p) ==
    /\ pool = <<>>
    /\ ~UnderLimit
    /\ stats' = [stats EXCEPT !.total_requests = @ + 1]
    /\ pc' = [pc EXCEPT ![p] = "sleeping"]
    /\ UNCHANGED <<connection, pool, in_use, lock, immediate>>

AcquireFirst(p) ==
    /\ pc[p] = "acquire"
    /\ lock = None
    /\ (ReuseFirst(p) \/ BeginCreate(p) \/ Exhausted(p))
    /\ UNCHANGED <<nonPoolVars, max_connections, retry_attempts, retry_count, outcome,
                   released, calls>>

\* _create_connection succeeded: Pinecone(api_key=...) returned a new object
CreateOk(p) ==
    /\ pc[p] = "creating"
    /\ connection' = [connection EXCEPT ![p] = NewConnection]
    /\ in_use' = in_use \cup {NewConnection}
    /\ stats' = [stats EXCEPT !.connections_created = @ + 1,
                              !.active_connections = @ + 1]
    /\ immediate' = [immediate EXCEPT ![p] = TRUE]
    /\ lock' = None
    /\ pc' = [pc EXCEPT ![p] = "holding"]
    /\ UNCHANGED <<nonPoolVars, max_connections, retry_attempts, pool, retry_count, outcome,
                   released, calls>>

\* _create_connection failed: the exception is swallowed and None is returned
CreateFail(p) ==
    /\ pc[p] = "creating"
    /\ stats' = [stats EXCEPT !.connections_failed = @ + 1]
    /\ lock' = None
    /\ pc' = [pc EXCEPT ![p] = "sleeping"]
    /\ UNCHANGED <<nonPoolVars, max_connections, retry_attempts, pool, in_use, connection,
                   retry_count, outcome, released, immediate, calls>>

\* (mutant) the loop allows one retry too many
MayRetryOneMore(p) == connection[p] = None /\ retry_count[p] <= retry_attempts

\* the guard of the retry loop
MayRetry(p) == connection[p] = None /\ retry_count[p] < retry_attempts

\* one pass of the retry loop: sleep, count, and look at the idle pool
Retry(p) ==
    /\ pc[p] = "sleeping"
    /\ MayRetry(p)
    /\ lock = None
    /\ retry_count' = [retry_count EXCEPT ![p] = @ + 1]
    /\ IF pool # <<>>
       THEN /\ connection' = [connection EXCEPT ![p] = PoolTop]
            /\ pool' = PoolPopped
            /\ in_use' = in_use \cup {PoolTop}
            /\ stats' = [stats EXCEPT !.connections_reused = @ + 1,
                                      !.active_connections = @ + 1]
            /\ pc' = [pc EXCEPT ![p] = "holding"]
       ELSE UNCHANGED <<connection, pool, in_use, stats, pc>>
    /\ UNCHANGED <<nonPoolVars, max_connections, retry_attempts, lock, outcome, released,
                   immediate, calls>>

\* the loop ended without a connection: "Unable to acquire connection from pool";
\* the finally block finds connection = None and does nothing
RaiseExhausted(p) ==
    /\ pc[p] = "sleeping"
    /\ ~MayRetry(p)
    /\ pc' = [pc EXCEPT ![p] = "failed"]
    /\ UNCHANGED <<nonPoolVars, max_connections, retry_attempts, pool, in_use, lock, stats,
                   connection, retry_count, outcome, released, immediate, calls>>

\* the caller's block ends, normally or by an exception thrown into the generator
BlockEnds(p) ==
    /\ pc[p] = "holding"
    /\ \E o \in {"normal", "exception"} : outcome' = [outcome EXCEPT ![p] = o]
    /\ pc' = [pc EXCEPT ![p] = "exiting"]
    /\ UNCHANGED <<nonPoolVars, max_connections, retry_attempts, pool, in_use, lock, stats,
                   connection, retry_count, released, immediate, calls>>

\* (mutant) a released connection is never kept when max_connections = 2
KeepReleasedBelowHalf == Len(pool) < (max_connections - 1) \div 2

\* the test that decides whether a released connection is kept for reuse
KeepReleased == Len(pool) < max_connections \div 2

\* (mutant) the release is written after the yield instead of in a finally
RunsFinallyNormalOnly(o) == o = "normal"

\* the finally block: which exits of the caller's block run the release
RunsFinally(o) == o \in {"normal", "exception"}

\* (mutant) a discarded connection stays in the in-use set
ReleaseFinallyLeaksDiscarded(p) ==
    /\ pc[p] = "exiting"
    /\ lock = None
    /\ IF connection[p] \in in_use /\ KeepReleased
       THEN /\ in_use' = in_use \ {connection[p]}
            /\ stats' = [stats EXCEPT !.active_connections = @ - 1]
            /\ released' = [released EXCEPT ![p] = @ + 1]
            /\ pool' = Append(pool, connection[p])
       ELSE UNCHANGED <<in_use, stats, released, pool>>
    /\ connection' = [connection EXCEPT ![p] = None]
    /\ pc' = [pc EXCEPT ![p] = "done"]
    /\ UNCHANGED <<nonPoolVars, max_connections, retry_attempts, lock, retry_count, outcome,
                   immediate, calls>>

\* the finally block, under the lock
ReleaseFinally(p) ==
    /\ pc[p] = "exiting"
    /\ lock = None
    /\ IF RunsFinally(outcome[p]) /\ connection[p] # None /\ connection[p] \in in_use
       THEN /\ in_use' = in_use \ {connection[p]}
            /\ stats' = [stats EXCEPT !.active_connections = @ - 1]
            /\ released' = [released EXCEPT ![p] = @ + 1]
            /\ pool' = IF KeepReleased THEN Append(pool, connection[p]) ELSE pool
       ELSE UNCHANGED <<in_use, stats, released, pool>>
    /\ connection' = [connection EXCEPT ![p] = None]
    /\ pc' = [pc EXCEPT ![p] = "done"]
    /\ UNCHANGED <<nonPoolVars, max_connections, retry_attempts, lock, retry_count, outcome,
                   immediate, calls>>

\* the argument of release_connection(connection): the connection object the
\* caller got from get_connection()
ConnectionObject(c) == [kind |-> "object", conn |-> c]

\* `connection in self._in_use`: _in_use holds the integers id(connection)
\* (lines 77, 85, 101), and a connection object equals no integer
InUseContains(arg) == arg.kind = "id" /\ arg.conn \in in_use

\* release_connection(connection), called by a task with the connection it has
\* checked out
ReleaseConnection(p) ==
    /\ pc[p] = "holding"
    /\ lock = None
    /\ LET arg == ConnectionObject(connection[p])
           found == InUseContains(arg)
           kept == found /\ Len(pool) < max_connections
           in_use_after == IF found THEN in_use \ {arg.conn} ELSE in_use
           pool_after == IF kept THEN Append(pool, arg.conn) ELSE pool
       IN  /\ in_use' = in_use_after
           /\ pool' = pool_after
           /\ stats' = IF kept THEN [stats EXCEPT !.connections_reused = @ + 1]
                       ELSE stats
           /\ lastRelease' = [made |-> TRUE,
                              in_use_before |-> Cardinality(in_use),
                              in_use_after |-> Cardinality(in_use_after),
                              available_before |-> Len(pool),
                              available_after |-> Len(pool_after)]
    /\ UNCHANGED <<max_connections, retry_attempts, lock, pc, connection,
                   retry_count, outcome, released, immediate, calls>>
    /\ UNCHANGED <<cacheVars, monitorVars, exportVars, samplingVars, embedVars,
                   warmVars, ragVars>>

\* PineconeConnectionPool.get_stats
GetStats ==
    [connections_created |-> stats.connections_created,
     connections_reused |-> stats.connections_reused,
     connections_failed |-> stats.connections_failed,
     total_requests |-> stats.total_requests,
     pool_size |-> Len(pool),
     active_connections |-> Cardinality(in_use),
     available_connections |-> Len(pool),
     max_connections |-> max_connections]

(***************************************************************************)
(* CacheService: text helpers.  A query is a sequence of characters.       *)
(***************************************************************************)

\* "What is HB 55?": scenario A, the stored query
Q_HB55 ==
    <<"W", "h", "a", "t", " ", "i", "s", " ", "H", "B", " ", "5", "5", "?">>

\* "what is hb 55": scenario A, the looked-up query: no question mark
Q_hb55 ==
    <<"w", "h", "a", "t", " ", "i", "s", " ", "h", "b", " ", "5", "5">>

\* " WHAT IS HB 55? ": same exact key as Q_HB55 (case, outer whitespace)
Q_HB55_padded ==
    <<" ", "W", "H", "A", "T", " ", "I", "S", " ", "H", "B", " ", "5", "5", "?", " ">>

\* "what  is hb 55?": same normalized form as Q_HB55, another exact key
Q_hb55_spaced ==
    <<"w", "h", "a", "t", " ", " ", "i", "s", " ", "h", "b", " ", "5", "5", "?">>

\* "what is hb 55 about": Jaccard 4/5 with Q_hb55
Q_hb55_about ==
    <<"w", "h", "a", "t", " ", "i", "s", " ", "h", "b", " ", "5", "5", " ", "a", "b", "o", "u", "t">>

\* "what is hb 55 about now": Jaccard 5/6 with Q_hb55_about
Q_hb55_about_now ==
    <<"w", "h", "a", "t", " ", "i", "s", " ", "h", "b", " ", "5", "5", " ", "a", "b", "o", "u", "t", " ", "n", "o", "w">>

Queries == {Q_HB55, Q_hb55, Q_HB55_padded, Q_hb55_spaced, Q_hb55_about,
            Q_hb55_about_now}

\* response payloads
Payloads == {"P1", "P2"}

\* str.lower() on the letters that occur in Queries
LowerChar(c) ==
    CASE c = "W" -> "w" [] c = "H" -> "h" [] c = "A" -> "a" [] c = "T" -> "t"
      [] c = "I" -> "i" [] c = "S" -> "s" [] c = "B" -> "b" [] OTHER -> c

StrLower(s) == [i \in 1..Len(s) |-> LowerChar(s[i])]

IsSpace(c) == c = " "

RECURSIVE LStrip(_)
LStrip(s) == IF s # <<>> /\ IsSpace(Head(s)) THEN LStrip(Tail(s)) ELSE s

RECURSIVE RStrip(_)
RStrip(s) ==
    IF s # <<>> /\ IsSpace(s[Len(s)]) THEN RStrip(SubSeq(s, 1, Len(s) - 1)) ELSE s

\* str.strip()
StrStrip(s) == RStrip(LStrip(s))

\* re.sub(r'\s+', ' ', s)
RECURSIVE CollapseWhitespace(_)
CollapseWhitespace(s) ==
    IF s = <<>> THEN <<>>
    ELSE IF IsSpace(Head(s)) THEN <<" ">> \o CollapseWhitespace(LStrip(Tail(s)))
    ELSE <<Head(s)>> \o CollapseWhitespace(Tail(s))

\* the first whitespace-delimited word of a string that starts with a word
RECURSIVE FirstWord(_)
FirstWord(s) ==
    IF s = <<>> \/ IsSpace(Head(s)) THEN <<>> ELSE <<Head(s)>> \o FirstWord(Tail(s))

\* set(s.split())
RECURSIVE Words(_)
Words(s) ==
    LET t == LStrip(s) IN
    IF t = <<>> THEN {}
    ELSE {FirstWord(t)} \cup Words(SubSeq(t, Len(FirstWord(t)) + 1, Len(t)))

\* _get_cache_key: f"rag:{md5(query.lower().strip())}"; md5 is modelled as
\* injective, the digest stands for the text it was computed from
CacheKey(q) == <<"rag", StrStrip(StrLower(q))>>

\* (mutant) the query is normalized without lower-casing
NormalizeQueryKeepsCase(q) == CollapseWhitespace(StrStrip(q))

\* _normalize_query
NormalizeQuery(q) == CollapseWhitespace(StrStrip(StrLower(q)))

\* _query_similarity: the Jaccard ratio as <<intersection, union>>; 0 when the
\* union is empty
QuerySimilarity(q1, q2) ==
    LET set1 == Words(q1)
        set2 == Words(q2)
        intersection == Cardinality(set1 \cap set2)
        union == Cardinality(set1 \cup set2)
    IN IF union > 0 THEN <<intersection, union>> ELSE <<0, 1>>

\* (mutant) a stricter threshold, ratio > 0.9
ExceedsThresholdNine(ratio) == 10 * ratio[1] > 9 * ratio[2]

\* `... > 0.8` in get_cached_result
ExceedsThreshold(ratio) == 10 * ratio[1] > 8 * ratio[2]

\* the texts that are embedded, and the kinds of input
EmbedTexts == {"t1", "t2"}
InputTypes == {"query", "document"}

\* _get_embedding_cache_key: f"embedding:{md5(text:input_type:model)}". The key
\* is one word of lower-case hexadecimal digits; it is modelled as a string of
\* one symbol, which stands for the digest of (text, input_type).
EmbeddingCacheKey(text, input_type) ==
    <<"embedding:" \o text \o ":" \o input_type>>

EmbeddingKeys == {EmbeddingCacheKey(t, i) : t \in EmbedTexts, i \in InputTypes}

\* every string that is passed to the result cache as a query
CachedQueries == Queries \cup EmbeddingKeys

\* The text functions above, tabulated over the queries of the model (they are
\* pure; the tables only save recomputing them in every step).
KeyOf == [q \in CachedQueries |-> CacheKey(q)]
NormOf == [q \in CachedQueries |-> NormalizeQuery(q)]
NormalizedQueries == {NormalizeQuery(q) : q \in CachedQueries}
Matches ==
    [a \in NormalizedQueries |->
        [b \in NormalizedQueries |-> ExceedsThreshold(QuerySimilarity(a, b))]]

(***************************************************************************)
(* cachetools.TTLCache as CacheService uses it.  A cache is a record       *)
(*   links : the keys in least-recently-used order (first = next victim)   *)
(*   list  : the entries [key, value, left] in order of expiry, where      *)
(*           left = expires - now is the time the entry still has to live  *)
(***************************************************************************)
EmptyCache == [links |-> <<>>, list |-> <<>>]

RemoveKey(keys, k) == SelectSeq(keys, LAMBDA x : x # k)

\* `key in cache`: present and timer() < link.expires
TTLContains(c, k) == \E e \in Range(c.list) : e.key = k /\ e.left > 0

\* `cache[key]` of a key the cache contains
TTLValue(c, k) == (CHOOSE e \in Range(c.list) : e.key = k).value

\* __getitem__ marks the key as most recently used
TTLTouch(c, k) == [c EXCEPT !.links = Append(RemoveKey(@, k), k)]

\* the entries an iteration over the cache yields, in its order
TTLLive(c) == SelectSeq(c.list, LAMBDA e : e.left > 0)

\* expire(): drop the entries whose time is over
TTLExpire(c) ==
    LET dead == {e.key : e \in {x \in Range(c.list) : x.left = 0}}
    IN [links |-> SelectSeq(c.links, LAMBDA k : k \notin dead),
        list |-> SelectSeq(c.list, LAMBDA e : e.left > 0)]

\* popitem(): drop the least recently used entry
TTLPopItem(c) ==
    [links |-> Tail(c.links),
     list |-> SelectSeq(c.list, LAMBDA e : e.key # Head(c.links))]

\* (mutant) nothing is evicted when the cache is full
TTLEvictNothing(c, maxsize) == c

\* Cache.__setitem__: `while currsize + size > maxsize: self.popitem()`
RECURSIVE TTLEvict(_, _)
TTLEvict(c, maxsize) ==
    IF Len(c.list) + 1 > maxsize /\ c.links # <<>>
    THEN TTLEvict(TTLPopItem(c), maxsize)
    ELSE c

\* `cache[key] = value`
TTLSetItem(c, k, v, ttl, maxsize) ==
    LET c1 == TTLExpire(c)
        c2 == IF \E e \in Range(c1.list) : e.key = k THEN c1 ELSE TTLEvict(c1, maxsize)
    IN [links |-> Append(RemoveKey(c2.links, k), k),
        list |-> Append(SelectSeq(c2.list, LAMBDA e : e.key # k),
                        [key |-> k, value |-> v, left |-> ttl])]

\* the clock advances by d seconds. An entry whose time is over is invisible
\* to every operation the service uses (`in`, [], items(), len()) and is
\* removed by the next write; the model drops it as soon as its time is over.
TTLAdvance(c, d) ==
    TTLExpire(
        [links |-> c.links,
         list |-> [i \in 1..Len(c.list) |->
                     [key |-> c.list[i].key, value |-> c.list[i].value,
                      left |-> IF c.list[i].left > d THEN c.list[i].left - d ELSE 0]]])

(***************************************************************************)
(* CacheService                                                            *)
(***************************************************************************)
\* memory_ttl: int = 300
MemoryTTL == 300
\* TTLCache(maxsize=500, ttl=1800)
SimilarityTTL == 1800

\* the value of lastOp when no cache operation has returned yet
NoOp == [op |-> "none", query |-> <<>>, response |-> "none", result |-> "none",
         tier |-> "none", prev |-> "none", stale |-> FALSE, evicted |-> FALSE,
         cleared |-> FALSE, dropped |-> {}]

\* the /rag requests of a behaviour, in the order of their arrival
Requests == 1..MaxRagRequests

\* the dictionaries the handlers build, one per request
ObjectNames == <<"o1", "o2", "o3", "o4">>
Objects == {ObjectNames[n] : n \in Requests}

\* a dictionary that was not built yet
NoContent == [result |-> "none", documents_found |-> 0, quality_metrics |-> FALSE]

\* a request that has not arrived yet
NoRequest ==
    [pc |-> "new", query |-> <<>>, documents_found |-> 0, records |-> 0,
     path |-> "none", final |-> "none"]

\* no /rag request has arrived
RagInit ==
    /\ vectorstore \in BOOLEAN
    /\ req = [n \in Requests |-> NoRequest]
    /\ heap = [o \in Objects |-> NoContent]
    /\ set_content = [o \in Objects |-> NoContent]

\* CacheService.__init__ (and a request handler that is not used)
CacheInit ==
    /\ RagInit
    /\ vectorstore
    /\ memory_cache = EmptyCache
    /\ similarity_cache = EmptyCache
    /\ lastOp = NoOp

\* index in `live` of the first similarity entry that exceeds the threshold
\* for the normalized query nq, or 0
FirstMatch(live, nq) ==
    LET hits == {i \in 1..Len(live) : Matches[nq][live[i].key]}
    IN IF hits = {} THEN 0 ELSE CHOOSE i \in hits : \A j \in hits : i <= j

\* iterating similarity_cache.items() reads, and so touches, every entry visited
RECURSIVE TouchFirst(_, _, _)
TouchFirst(c, live, n) ==
    IF n = 0 THEN c ELSE TTLTouch(TouchFirst(c, live, n - 1), live[n].key)

\* get_cached_result(query) at recursion depth `depth`, on the caches mem and
\* sim: the value returned (or "absent", or "RecursionError") and the caches
\* after the call
RECURSIVE GetRec(_, _, _, _)
GetRec(q, mem, sim, depth) ==
    IF depth >= RecursionLimit
    THEN [result |-> "RecursionError", mem |-> mem, sim |-> sim]
    ELSE IF TTLContains(mem, KeyOf[q])
    THEN [result |-> TTLValue(mem, KeyOf[q]),
          mem |-> TTLTouch(mem, KeyOf[q]), sim |-> sim]
    ELSE LET live == TTLLive(sim)
             m == FirstMatch(live, NormOf[q])
         IN IF m = 0
            THEN [result |-> "absent", mem |-> mem,
                  sim |-> TouchFirst(sim, live, Len(live))]
            ELSE GetRec(live[m].value, mem, TouchFirst(sim, live, m), depth + 1)

\* the tier that answers get_cached_result(q)
TierOf(q) ==
    IF TTLContains(memory_cache, KeyOf[q]) THEN "exact"
    ELSE IF FirstMatch(TTLLive(similarity_cache), NormOf[q]) # 0 THEN "similarity"
    ELSE "none"

\* the exact tier misses and the first matching similarity entry points to a
\* query whose exact-tier entry is gone (expired or evicted)
StaleMatch(q) ==
    LET live == TTLLive(similarity_cache)
        m == FirstMatch(live, NormOf[q])
    IN /\ ~TTLContains(memory_cache, KeyOf[q])
       /\ m # 0
       /\ ~TTLContains(memory_cache, KeyOf[live[m].value])

\* get_cached_result
GetCachedResult(q) ==
    LET got == GetRec(q, memory_cache, similarity_cache, 0) IN
    /\ memory_cache' = got.mem
    /\ similarity_cache' = got.sim
    /\ lastOp' = [op |-> "get", query |-> q, response |-> "none",
                  result |-> got.result, tier |-> TierOf(q),
                  prev |-> IF lastOp.op = "set" /\ lastOp.query = q
                           THEN lastOp.response ELSE "none",
                  stale |-> StaleMatch(q), evicted |-> FALSE,
                  cleared |-> lastOp.cleared, dropped |-> lastOp.dropped]
    /\ UNCHANGED nonCacheVars

\* (mutant) the exact entry is stored under the hash of the raw query
StoreExactRawKey(q, r) ==
    TTLSetItem(memory_cache, <<"rag", q>>, r, MemoryTTL, MemoryCacheSize)

\* self.memory_cache[cache_key] = result
StoreExact(q, r) ==
    TTLSetItem(memory_cache, KeyOf[q], r, MemoryTTL, MemoryCacheSize)

\* self.similarity_cache[normalized_query] = query
StoreSimilar(q) ==
    TTLSetItem(similarity_cache, NormOf[q], q, SimilarityTTL, SimilarityMaxSize)

\* the store has to drop a live entry of cache c to make room for key k
Evicts(c, k, maxsize) ==
    /\ ~\E e \in Range(TTLExpire(c).list) : e.key = k
    /\ Len(TTLExpire(c).list) >= maxsize

\* set_cached_result
SetCachedResult(q, r) ==
    /\ memory_cache' = StoreExact(q, r)
    /\ similarity_cache' = StoreSimilar(q)
    /\ lastOp' = [op |-> "set", query |-> q, response |-> r, result |-> "none",
                  tier |-> "none", prev |-> "none", stale |-> FALSE,
                  evicted |-> \/ Evicts(memory_cache, KeyOf[q], MemoryCacheSize)
                              \/ Evicts(similarity_cache, NormOf[q],
                                        SimilarityMaxSize),
                  cleared |-> FALSE, dropped |-> {}]
    /\ UNCHANGED nonCacheVars

\* the queries whose entries are in the similarity index
StoredQueries == {e.value : e \in Range(similarity_cache.list)}

\* (mutant) only the exact tier is cleared
ClearCacheExactOnly ==
    /\ memory_cache' = EmptyCache
    /\ similarity_cache' = similarity_cache
    /\ lastOp' = [NoOp EXCEPT !.op = "clear", !.cleared = TRUE,
                                !.dropped = StoredQueries]
    /\ UNCHANGED nonCacheVars

\* clear_cache; lastOp keeps, until the next set, that the cache was cleared
\* and which queries had entries
ClearCache ==
    /\ memory_cache' = EmptyCache
    /\ similarity_cache' = EmptyCache
    /\ lastOp' = [NoOp EXCEPT !.op = "clear", !.cleared = TRUE,
                                !.dropped = StoredQueries]
    /\ UNCHANGED nonCacheVars

\* time passes between two cache operations
Tick ==
    /\ memory_cache' = TTLAdvance(memory_cache, TickStep)
    /\ similarity_cache' = TTLAdvance(similarity_cache, TickStep)
    /\ lastOp' = [NoOp EXCEPT !.op = "tick", !.cleared = lastOp.cleared,
                                !.dropped = lastOp.dropped]
    /\ UNCHANGED nonCacheVars

CacheNext ==
    \/ \E q \in Queries, r \in Payloads : SetCachedResult(q, r)
    \/ \E q \in Queries : GetCachedResult(q)
    \/ ClearCache
    \/ Tick

(***************************************************************************)
(* PerformanceMonitor.  The floats of the source (averages, rates) are     *)
(* modelled as exact rationals <<numerator, denominator>>: the model       *)
(* computes what the code computes, without the rounding of the floats.    *)
(***************************************************************************)
\* the endpoints that record requests (app.py records "/rag")
Endpoints == {"/rag"}

\* (duration_ms, cache_hit, error) of the requests that are recorded
RequestProfiles ==
    {[duration_ms |-> 1000, cache_hit |-> TRUE, error |-> FALSE],
     [duration_ms |-> 3000, cache_hit |-> TRUE, error |-> FALSE],
     [duration_ms |-> 1000, cache_hit |-> FALSE, error |-> FALSE],
     [duration_ms |-> 1000, cache_hit |-> TRUE, error |-> TRUE]}

\* the `hours` arguments of get_performance_summary
Hours == {0, 1}

\* seconds by which the clock advances between two operations
ClockSteps == {300, 3600}

\* hours * 3600
SecondsPerHour == 3600
\* time.time() - 300
RealTimeWindow == 300
\* len(recent_requests) / 5
RpsDivisor == 5
\* thresholds["response_time_ms"]
ResponseTimeThreshold == 2000

RECURSIVE GCD(_, _)
GCD(a, b) == IF b = 0 THEN a ELSE GCD(b, a % b)

\* the rational n / d (n >= 0, d > 0) in lowest terms
Rat(n, d) == <<n \div GCD(n, d), d \div GCD(n, d)>>

\* x < y for rationals with positive denominators
RatLess(x, y) == x[1] * y[2] < y[1] * x[2]

\* the monitor's answer when no query has been made since the last change
NoQuery == [op |-> "none", hours |-> 0, result |-> [kind |-> "none"]]

\* an entry of the defaultdict endpoint_stats
NewEndpointStats ==
    [requests |-> 0, avg_duration_ms |-> <<0, 1>>, errors |-> 0,
     cache_hits |-> 0, cache_misses |-> 0]

\* the monitor_loop tasks and the callers of stop_monitoring
SamplerTasks == 1..MaxSamplerTasks
StopCallers == 1..NumStopCallers

\* no background sampling was started: lines 76-77 and 52
SamplingInit ==
    /\ monitoring = FALSE
    /\ monitor_task = None
    /\ sampler = [t \in SamplerTasks |-> "none"]
    /\ system_history = <<>>
    /\ stop_wait = [c \in StopCallers |-> None]
    /\ lastSampling = "none"

\* no export_metrics call was made yet
NoExport ==
    [pc |-> "idle", endpoints |-> {}, request_history |-> <<>>,
     file |-> [written |-> FALSE]]

\* PerformanceMonitor.__init__ (requests_per_minute and active_connections of
\* self.stats are never written and are left out)
MonitorInit ==
    /\ export = NoExport
    /\ SamplingInit
    /\ max_request_history \in 1..MaxRequestHistory
    /\ request_history = <<>>
    /\ perf_stats = [total_requests |-> 0, cache_hits |-> 0, cache_misses |-> 0,
                     total_errors |-> 0, avg_response_time_ms |-> <<0, 1>>]
    /\ endpoint_stats = [e \in Endpoints |-> NewEndpointStats]
    /\ now = 0
    /\ ticks = 0
    /\ sum_durations = 0
    /\ lastMon = NoQuery

\* (mutant) a full buffer refuses the new record
DequeAppendDropsNewest(q, x, maxlen) ==
    IF Len(q) >= maxlen THEN q ELSE Append(q, x)

\* deque(maxlen=...).append
DequeAppend(q, x, maxlen) ==
    IF Len(q) >= maxlen THEN Append(Tail(q), x) ELSE Append(q, x)

\* (mutant) the running average weighs the old average with n instead of n - 1
UpdateAverageOverweighted(avg, n, duration_ms) ==
    IF n = 1 THEN <<duration_ms, 1>>
    ELSE Rat(avg[1] * n + duration_ms * avg[2], avg[2] * n)

\* _update_averages: (current_avg * (n - 1) + duration_ms) / n
UpdateAverage(avg, n, duration_ms) ==
    IF n = 1 THEN <<duration_ms, 1>>
    ELSE Rat(avg[1] * (n - 1) + duration_ms * avg[2], avg[2] * n)

\* record_request. The field seq of a record is its number among the requests
\* recorded (the K-th record_request call makes record K); it is not a field
\* of RequestMetrics.
Recorded(endpoint, duration_ms, cache_hit, error) ==
    LET total == perf_stats.total_requests + 1
        metrics == [timestamp |-> now, endpoint |-> endpoint,
                    duration_ms |-> duration_ms, cache_hit |-> cache_hit,
                    error |-> error, seq |-> total]
        es == endpoint_stats[endpoint]
    IN
    /\ request_history' = DequeAppend(request_history, metrics, max_request_history)
    /\ perf_stats' =
          [total_requests |-> total,
           cache_hits |-> perf_stats.cache_hits + (IF cache_hit THEN 1 ELSE 0),
           cache_misses |-> perf_stats.cache_misses + (IF cache_hit THEN 0 ELSE 1),
           total_errors |-> perf_stats.total_errors + (IF error THEN 1 ELSE 0),
           avg_response_time_ms |->
               UpdateAverage(perf_stats.avg_response_time_ms, total, duration_ms)]
    /\ endpoint_stats' =
          [endpoint_stats EXCEPT ![endpoint] =
              [requests |-> es.requests + 1,
               avg_duration_ms |->
                   UpdateAverage(es.avg_duration_ms, es.requests + 1, duration_ms),
               errors |-> es.errors + (IF error THEN 1 ELSE 0),
               cache_hits |-> es.cache_hits + (IF cache_hit THEN 1 ELSE 0),
               cache_misses |-> es.cache_misses + (IF cache_hit THEN 0 ELSE 1)]]
    /\ sum_durations' = sum_durations + duration_ms
    /\ lastMon' = [NoQuery EXCEPT !.op = "record"]

\* record_request called on its own
RecordRequest(endpoint, duration_ms, cache_hit, error) ==
    /\ Recorded(endpoint, duration_ms, cache_hit, error)
    /\ UNCHANGED <<max_request_history, now, ticks, nonMonitorVars>>

\* (mutant) the window is not applied: every record of the buffer is recent
RecentRequestsUnfiltered(cutoff) == request_history

\* [r for r in self.request_history if r.timestamp >= cutoff]
RecentRequests(cutoff) ==
    SelectSeq(request_history, LAMBDA r : r.timestamp >= cutoff)

\* sum(1 for r in recent if r.cache_hit)
CountHits(recent) == Cardinality({i \in 1..Len(recent) : recent[i].cache_hit})

\* sum(1 for r in recent if r.error)
CountErrors(recent) == Cardinality({i \in 1..Len(recent) : recent[i].error})

\* sum(r.duration_ms for r in recent)
RECURSIVE SumDurations(_)
SumDurations(recent) ==
    IF recent = <<>> THEN 0 ELSE Head(recent).duration_ms + SumDurations(Tail(recent))

\* hit_rate < thresholds["cache_hit_rate"] (0.7)
BelowHitRateThreshold(hits, total) == 10 * hits < 7 * total

\* (mutant) the error alert fires at the threshold itself
AboveErrorRateThresholdInclusive(errors, total) == 100 * errors >= 5 * total

\* error_rate > thresholds["error_rate"] (0.05)
AboveErrorRateThreshold(errors, total) == 100 * errors > 5 * total

\* _get_performance_alerts: the alerts (type, severity) raised from self.stats
PerformanceAlerts ==
    LET total_cache_requests == perf_stats.cache_hits + perf_stats.cache_misses IN
    (IF /\ total_cache_requests > 0
        /\ BelowHitRateThreshold(perf_stats.cache_hits, total_cache_requests)
     THEN {[type |-> "cache_performance", severity |-> "warning"]} ELSE {})
    \cup
    (IF RatLess(<<ResponseTimeThreshold, 1>>, perf_stats.avg_response_time_ms)
     THEN {[type |-> "response_time", severity |-> "warning"]} ELSE {})
    \cup
    (IF /\ perf_stats.total_requests > 0
        /\ AboveErrorRateThreshold(perf_stats.total_errors, perf_stats.total_requests)
     THEN {[type |-> "error_rate", severity |-> "error"]} ELSE {})

\* [r.duration_ms for r in recent_requests]
Durations(recent) == [i \in 1..Len(recent) |-> recent[i].duration_ms]

\* the sorted list s with x put at its place
SortedInsert(s, x) ==
    LET k == Cardinality({i \in 1..Len(s) : s[i] <= x})
    IN SubSeq(s, 1, k) \o <<x>> \o SubSeq(s, k + 1, Len(s))

\* sorted(durations)
RECURSIVE Sorted(_)
Sorted(s) == IF s = <<>> THEN <<>> ELSE SortedInsert(Sorted(Tail(s)), Head(s))

\* (mutant) the position is rounded up
PercentileIndexCeiling(percent, n) == (percent * n + 99) \div 100

\* int(0.95 * n), int(0.99 * n): the product of the doubles, truncated; for
\* these two factors it is the exact floor of percent * n / 100 for every
\* n up to 200000
PercentileIndex(percent, n) == (percent * n) \div 100

\* sorted(durations)[int(0.95 * len(durations))], 0-based in the source
Percentile(durations, percent) ==
    Sorted(durations)[PercentileIndex(percent, Len(durations)) + 1]

\* what get_performance_summary(hours) returns: the "no recent requests"
\* message, the summary, or the ZeroDivisionError of `total_requests / hours`
PerformanceSummary(hours) ==
    LET cutoff_time == now - hours * SecondsPerHour
        recent_requests == RecentRequests(cutoff_time)
        total_requests == Len(recent_requests)
        cache_hits == CountHits(recent_requests)
        errors == CountErrors(recent_requests)
    IN IF recent_requests = <<>> THEN [kind |-> "no_data"]
       ELSE IF hours = 0 THEN [kind |-> "ZeroDivisionError"]
       ELSE IF \/ PercentileIndex(95, total_requests) >= total_requests
               \/ PercentileIndex(99, total_requests) >= total_requests
       THEN [kind |-> "IndexError"]
       ELSE [kind |-> "summary",
             time_period_hours |-> hours,
             total_requests |-> total_requests,
             requests_per_hour |-> <<total_requests, hours>>,
             hit_rate |-> <<cache_hits, total_requests>>,
             hits |-> cache_hits,
             misses |-> total_requests - cache_hits,
             average_ms |-> Rat(SumDurations(recent_requests), total_requests),
             p95_ms |-> Percentile(Durations(recent_requests), 95),
             p99_ms |-> Percentile(Durations(recent_requests), 99),
             error_rate |-> <<errors, total_requests>>,
             total_errors |-> errors,
             performance_alerts |-> PerformanceAlerts]

\* get_performance_summary
GetPerformanceSummary(hours) ==
    /\ lastMon' = [op |-> "summary", hours |-> hours,
                   result |-> PerformanceSummary(hours)]
    /\ UNCHANGED <<max_request_history, request_history, perf_stats, endpoint_stats,
                   now, ticks, sum_durations, nonMonitorVars>>

\* what get_real_time_stats returns
RealTimeStats ==
    LET recent_requests == RecentRequests(now - RealTimeWindow) IN
    [kind |-> "real_time",
     requests_per_second |->
         IF recent_requests # <<>> THEN <<Len(recent_requests), RpsDivisor>>
         ELSE <<0, 1>>,
     avg_response_time_ms |->
         IF recent_requests # <<>>
         THEN Rat(SumDurations(recent_requests), Len(recent_requests))
         ELSE <<0, 1>>,
     active_requests |-> Len(recent_requests),
     total_hits |-> perf_stats.cache_hits,
     total_misses |-> perf_stats.cache_misses]

\* get_real_time_stats
GetRealTimeStats ==
    /\ lastMon' = [op |-> "real_time", hours |-> 0, result |-> RealTimeStats]
    /\ UNCHANGED <<max_request_history, request_history, perf_stats, endpoint_stats,
                   now, ticks, sum_durations, nonMonitorVars>>

\* the clock advances by d seconds between two operations of the monitor
MonitorTick(d) ==
    /\ ticks < MaxTicks
    /\ now' = now + d
    /\ ticks' = ticks + 1
    /\ lastMon' = [NoQuery EXCEPT !.op = "tick"]
    /\ UNCHANGED <<max_request_history, request_history, perf_stats, endpoint_stats,
                   sum_durations, nonMonitorVars>>

\* the requests that are recorded in one behaviour
RecordSome(limit) ==
    /\ perf_stats.total_requests < limit
    /\ \E e \in Endpoints, r \in RequestProfiles :
          RecordRequest(e, r.duration_ms, r.cache_hit, r.error)

\* the monitor_loop tasks that still take snapshots: created, not finished and
\* not cancelled
Samplers == {t \in SamplerTasks : sampler[t] \in {"ready", "sleeping"}}

\* everything of the program that the background sampling leaves alone
nonSamplingVars ==
    <<monitorVars, exportVars, poolVars, compatVars, cacheVars, embedVars, warmVars,
      ragVars>>

\* (mutant) start_monitoring does not look at the flag
AlreadyMonitoringIgnored == FALSE

\* `if self._monitoring: return`
AlreadyMonitoring == monitoring

\* start_monitoring: no suspension point
StartMonitoring ==
    IF AlreadyMonitoring
    THEN /\ lastSampling' = "start_ignored"
         /\ UNCHANGED <<monitoring, monitor_task, sampler, system_history,
                        stop_wait, nonSamplingVars>>
    ELSE /\ \E t \in SamplerTasks :
               /\ sampler[t] = "none"
               /\ \A u \in SamplerTasks : u < t => sampler[u] # "none"
               /\ sampler' = [sampler EXCEPT ![t] = "ready"]
               /\ monitor_task' = t
         /\ monitoring' = TRUE
         /\ lastSampling' = "started"
         /\ UNCHANGED <<system_history, stop_wait, nonSamplingVars>>

\* monitor_loop, from the test of the flag to the await of the sleep:
\* `while self._monitoring: self._record_system_metrics()`
SamplerStep(t) ==
    /\ sampler[t] = "ready"
    /\ IF monitoring
       THEN /\ Len(system_history) < MaxSnapshots
            /\ system_history' = Append(system_history, t)
            /\ sampler' = [sampler EXCEPT ![t] = "sleeping"]
       ELSE /\ sampler' = [sampler EXCEPT ![t] = "done"]
            /\ UNCHANGED system_history
    /\ lastSampling' = "sample"
    /\ UNCHANGED <<monitoring, monitor_task, stop_wait, nonSamplingVars>>

\* asyncio.sleep(interval_seconds) is over
SleepEnds(t) ==
    /\ sampler[t] = "sleeping"
    /\ sampler' = [sampler EXCEPT ![t] = "ready"]
    /\ lastSampling' = "sleep_over"
    /\ UNCHANGED <<monitoring, monitor_task, system_history, stop_wait,
                   nonSamplingVars>>

\* Task.cancel(): a task that has not finished gets CancelledError at its next
\* step, before any statement of monitor_loop runs
Cancelled(state) == IF state \in {"ready", "sleeping"} THEN "cancelling" ELSE state

\* stop_monitoring by caller c, up to `await self._monitor_task`
StopMonitoring(c) ==
    /\ stop_wait[c] = None
    /\ monitoring' = FALSE
    /\ IF monitor_task # None
       THEN /\ sampler' = [sampler EXCEPT ![monitor_task] = Cancelled(@)]
            /\ stop_wait' = [stop_wait EXCEPT ![c] = monitor_task]
            /\ lastSampling' = "stop_called"
       ELSE /\ lastSampling' = "stop_completed"
            /\ UNCHANGED <<sampler, stop_wait>>
    /\ UNCHANGED <<monitor_task, system_history, nonSamplingVars>>

\* the cancelled task is resumed with CancelledError and ends
SamplerCancelled(t) ==
    /\ sampler[t] = "cancelling"
    /\ sampler' = [sampler EXCEPT ![t] = "done"]
    /\ lastSampling' = "task_cancelled"
    /\ UNCHANGED <<monitoring, monitor_task, system_history, stop_wait,
                   nonSamplingVars>>

\* stop_monitoring by caller c after the awaited task has ended
StopCompletes(c) ==
    /\ stop_wait[c] # None
    /\ sampler[stop_wait[c]] = "done"
    /\ stop_wait' = [stop_wait EXCEPT ![c] = None]
    /\ lastSampling' = "stop_completed"
    /\ UNCHANGED <<monitoring, monitor_task, sampler, system_history,
                   nonSamplingVars>>

SamplingNext ==
    \/ StartMonitoring
    \/ \E t \in SamplerTasks : SamplerStep(t)
    \/ \E t \in SamplerTasks : SleepEnds(t)
    \/ \E c \in StopCallers : StopMonitoring(c)
    \/ \E t \in SamplerTasks : SamplerCancelled(t)
    \/ \E c \in StopCallers : StopCompletes(c)

\* export_metrics, the block under request_lock and system_lock: `data` gets
\* copies of the keys of endpoint_stats and of the records of the buffer, and
\* references to self.stats and to the per-endpoint dictionaries
ExportCapture ==
    /\ export.pc \in {"idle", "written"}
    /\ export' = [export EXCEPT
                     !.pc = "captured",
                     !.endpoints = {e \in Endpoints : endpoint_stats[e].requests > 0},
                     !.request_history = request_history]
    /\ UNCHANGED <<monitorVars, samplingVars, poolVars, compatVars, cacheVars,
                   embedVars, warmVars, ragVars>>

\* export_metrics, json.dump(data, f) after the locks were released: the
\* referenced dictionaries are read as they are now
ExportDump ==
    /\ export.pc = "captured"
    /\ export' = [export EXCEPT
                     !.pc = "written",
                     !.file = [written |-> TRUE,
                               stats |-> perf_stats,
                               endpoint_stats |->
                                   [e \in export.endpoints |-> endpoint_stats[e]],
                               request_history |-> export.request_history]]
    /\ UNCHANGED <<monitorVars, samplingVars, poolVars, compatVars, cacheVars,
                   embedVars, warmVars, ragVars>>

\* record_request on a worker thread or between the steps of an export
ExportNext ==
    \/ RecordSome(MaxRecords)
    \/ ExportCapture
    \/ ExportDump

\* the requests of a behaviour that fills one window: at most MaxWindow
\* requests, at most MaxSlowRecords of them with the long duration
WindowRecord ==
    /\ perf_stats.total_requests < MaxWindow
    /\ \E r \in RequestProfiles :
          /\ r.cache_hit /\ ~r.error
          /\ r.duration_ms > ResponseTimeThreshold =>
                Cardinality({i \in 1..Len(request_history) :
                    request_history[i].duration_ms > ResponseTimeThreshold})
                  < MaxSlowRecords
          /\ RecordRequest("/rag", r.duration_ms, r.cache_hit, r.error)

PercentileNext ==
    \/ WindowRecord
    \/ GetPerformanceSummary(1)

MonitorNext ==
    \/ RecordSome(MaxRecords)
    \/ \E hours \in Hours : GetPerformanceSummary(hours)
    \/ GetRealTimeStats
    \/ \E d \in ClockSteps : MonitorTick(d)

\* the alerts of a monitor that has recorded up to MaxAlertRecords requests
AlertNext ==
    \/ RecordSome(MaxAlertRecords)
    \/ GetPerformanceSummary(1)

(***************************************************************************)
(* OptimizedEmbeddingsService.  The compute collaborator is                *)
(* self.client.embed, run in the executor: a call of it ends later, with   *)
(* vectors or with an exception.                                           *)
(***************************************************************************)
EmbedTasks == 1..NumEmbedTasks

\* the vectors the collaborator may return for a text
Vectors == {"v1", "v2"}

\* no vector: a text not in self.cache, an entry None of `embeddings`
NoVector == "none"

\* the lists of texts passed to embed_documents
DocumentLists == {<<>>, <<"t1">>, <<"t1", "t2">>, <<"t2", "t2", "t1">>}

\* no embed_documents call is in progress
IdleDoc ==
    [pc |-> "idle", texts |-> <<>>, embeddings |-> <<>>, batches |-> <<>>,
     pending |-> {}, failed |-> {}]

\* no call has ended yet
NoCall ==
    [op |-> "none", input |-> <<>>, kind |-> "none", result |-> <<>>,
     computed |-> FALSE, known |-> NoVector, batches |-> <<>>, failed |-> {}]

\* OptimizedEmbeddingsService.__init__
EmbedInit ==
    /\ warm = <<>>
    /\ batch_size \in 1..MaxBatchSize
    /\ embed_cache = [t \in EmbedTexts |-> NoVector]
    /\ embed_stats = [embeddings_created |-> 0, cache_hits |-> 0,
                      cache_misses |-> 0, batch_requests |-> 0]
    /\ eq = [p \in EmbedTasks |-> [pc |-> "idle", text |-> "", known |-> NoVector]]
    /\ doc = IdleDoc
    /\ embed_calls = 0
    /\ compute_calls = [t \in EmbedTexts |-> 0]
    /\ returned = [t \in EmbedTexts |-> NoVector]
    /\ lastEmbed = NoCall

\* cache_service.set_cached_result(q, r) on the caches mem and sim
StoreIn(mem, sim, q, r) ==
    [mem |-> TTLSetItem(mem, KeyOf[q], r, MemoryTTL, MemoryCacheSize),
     sim |-> TTLSetItem(sim, NormOf[q], q, SimilarityTTL, SimilarityMaxSize)]

\* (mutant) the vector is not kept in self.cache
CacheEmbeddingNowhere(cache, text, v) == cache

\* self.cache[cache_key] = embedding
CacheEmbedding(cache, text, v) == [cache EXCEPT ![text] = v]

\* what the caller of an embed_query call of task p gets
QueryEnded(p, text, kind, result, computed) ==
    [op |-> "embed_query", input |-> <<text>>, kind |-> kind, result |-> <<result>>,
     computed |-> computed, known |-> eq[p].known, batches |-> <<>>, failed |-> {}]

\* embed_query up to its first suspension: the two cache checks and, on a
\* miss, the submission of the computation to the executor
EmbedQueryStart(p, text) ==
    LET cache_key == EmbeddingCacheKey(text, "query")
        got == GetRec(cache_key, memory_cache, similarity_cache, 0)
        ended(kind, result) ==
            [op |-> "embed_query", input |-> <<text>>, kind |-> kind,
             result |-> <<result>>, computed |-> FALSE, known |-> returned[text],
             batches |-> <<>>, failed |-> {}]
    IN
    /\ eq[p].pc = "idle"
    /\ embed_calls < MaxEmbedCalls
    /\ embed_calls' = embed_calls + 1
    /\ IF embed_cache[text] # NoVector
       THEN \* `if cache_key in self.cache`
            /\ embed_stats' = [embed_stats EXCEPT !.cache_hits = @ + 1]
            /\ lastEmbed' = ended("returned", embed_cache[text])
            /\ returned' = [returned EXCEPT ![text] = embed_cache[text]]
            /\ UNCHANGED <<embed_cache, eq, compute_calls, memory_cache,
                           similarity_cache>>
       ELSE /\ memory_cache' = got.mem
            /\ similarity_cache' = got.sim
            /\ IF got.result = "RecursionError"
               THEN \* the exception of get_cached_result leaves embed_query
                    /\ lastEmbed' = ended("raised", "RecursionError")
                    /\ UNCHANGED <<embed_stats, embed_cache, eq, compute_calls,
                                   returned>>
               ELSE IF got.result # "absent"
               THEN \* hit in the result cache
                    /\ embed_stats' = [embed_stats EXCEPT !.cache_hits = @ + 1]
                    /\ embed_cache' = CacheEmbedding(embed_cache, text, got.result)
                    /\ lastEmbed' = ended("returned", got.result)
                    /\ returned' = [returned EXCEPT ![text] = got.result]
                    /\ UNCHANGED <<eq, compute_calls>>
               ELSE \* miss: run_in_executor(self.client.embed ...)
                    /\ embed_stats' = [embed_stats EXCEPT !.cache_misses = @ + 1]
                    /\ compute_calls' = [compute_calls EXCEPT ![text] = @ + 1]
                    /\ eq' = [eq EXCEPT ![p] = [pc |-> "computing", text |-> text,
                                                known |-> returned[text]]]
                    /\ UNCHANGED <<embed_cache, returned, lastEmbed>>
    /\ lastOp' = [NoOp EXCEPT !.op = "embedding"]
    /\ UNCHANGED <<batch_size, doc, nonEmbedVars>>

\* embed_query after the computation returned the vector v
EmbedQueryComputed(p, v) ==
    LET text == eq[p].text
        stored == StoreIn(memory_cache, similarity_cache,
                          EmbeddingCacheKey(text, "query"), v)
    IN
    /\ eq[p].pc = "computing"
    /\ embed_cache' = CacheEmbedding(embed_cache, text, v)
    /\ memory_cache' = stored.mem
    /\ similarity_cache' = stored.sim
    /\ embed_stats' = [embed_stats EXCEPT !.embeddings_created = @ + 1]
    /\ returned' = [returned EXCEPT ![text] = v]
    /\ lastEmbed' = QueryEnded(p, text, "returned", v, TRUE)
    /\ eq' = [eq EXCEPT ![p] = [pc |-> "idle", text |-> "", known |-> NoVector]]
    /\ lastOp' = [NoOp EXCEPT !.op = "embedding"]
    /\ UNCHANGED <<batch_size, doc, embed_calls, compute_calls, nonEmbedVars>>

\* embed_query after the computation raised: the exception is raised again
EmbedQueryFailed(p) ==
    /\ eq[p].pc = "computing"
    /\ lastEmbed' = QueryEnded(p, eq[p].text, "raised", "ComputeError", TRUE)
    /\ eq' = [eq EXCEPT ![p] = [pc |-> "idle", text |-> "", known |-> NoVector]]
    /\ UNCHANGED <<batch_size, embed_cache, embed_stats, doc, embed_calls,
                   compute_calls, returned, cacheVars, nonEmbedVars>>

\* the cache checks of embed_documents, text after text: what each lookup
\* found, the caches afterwards, and whether a lookup raised
RECURSIVE DocLookups(_, _, _)

\* the lookup of the first text returned `got`, and the lookups of the other
\* texts gave `rest`
LookupsJoined(got, rest) ==
    [found |-> <<got.result>> \o rest.found, mem |-> rest.mem, sim |-> rest.sim,
     error |-> rest.error]

\* the loop after the lookup of its first text returned `got`: an exception
\* of get_cached_result ends it
LookupsAfter(texts, got) ==
    IF got.result = "RecursionError"
    THEN [found |-> <<>>, mem |-> got.mem, sim |-> got.sim, error |-> TRUE]
    ELSE LookupsJoined(got, DocLookups(Tail(texts), got.mem, got.sim))

DocLookups(texts, mem, sim) ==
    IF texts = <<>> THEN [found |-> <<>>, mem |-> mem, sim |-> sim, error |-> FALSE]
    ELSE LookupsAfter(texts,
                      GetRec(EmbeddingCacheKey(Head(texts), "document"), mem, sim, 0))

\* uncached_texts: (index, text) of the texts the cache did not have
Uncached(texts, found) ==
    LET idx == SelectSeq([i \in 1..Len(texts) |-> i], LAMBDA i : found[i] = "absent")
    IN [k \in 1..Len(idx) |-> [idx |-> idx[k], text |-> texts[idx[k]]]]

\* _process_uncached_embeddings: uncached_texts[i:i + batch_size] for i in
\* range(0, len, batch_size)
RECURSIVE Batches(_, _)
Batches(uncached, size) ==
    IF uncached = <<>> THEN <<>>
    ELSE IF Len(uncached) <= size THEN <<uncached>>
    ELSE <<SubSeq(uncached, 1, size)>>
            \o Batches(SubSeq(uncached, size + 1, Len(uncached)), size)

\* what the caller of embed_documents gets
DocsEnded(texts, kind, result, batches, failed) ==
    [op |-> "embed_documents", input |-> texts, kind |-> kind, result |-> result,
     computed |-> batches # <<>>, known |-> NoVector, batches |-> batches,
     failed |-> failed]

\* embed_documents after its cache checks gave `looked`: the start of one task
\* per batch (asyncio.gather), or the end of the call
DocumentsLooked(texts, looked, embeddings, batches) ==
    /\ memory_cache' = looked.mem
    /\ similarity_cache' = looked.sim
    /\ IF looked.error
       THEN /\ lastEmbed' = DocsEnded(texts, "raised", <<>>, <<>>, {})
            /\ UNCHANGED doc
       ELSE IF batches = <<>>
       THEN /\ lastEmbed' = DocsEnded(texts, "returned", embeddings, <<>>, {})
            /\ UNCHANGED doc
       ELSE /\ doc' = [pc |-> "gathering", texts |-> texts, embeddings |-> embeddings,
                       batches |-> batches, pending |-> 1..Len(batches),
                       failed |-> {}]
            /\ UNCHANGED lastEmbed

\* the number of texts the cache checks found
CacheHits(found) == Cardinality({i \in 1..Len(found) : found[i] # "absent"})

\* the list `embeddings` after the cache checks: None for an uncached text
CachedEmbeddings(found) ==
    [i \in 1..Len(found) |-> IF found[i] = "absent" THEN NoVector ELSE found[i]]

\* embed_documents with the result `looked` of its cache checks
DocumentsStarted(texts, looked) ==
    /\ embed_stats' =
          [embed_stats EXCEPT !.cache_hits = @ + CacheHits(looked.found),
                              !.cache_misses = @ + Len(looked.found)
                                                   - CacheHits(looked.found)]
    /\ DocumentsLooked(texts, looked, CachedEmbeddings(looked.found),
                       Batches(Uncached(texts, looked.found), batch_size))

\* embed_documents up to its first suspension: the cache check of every text
\* and the start of one task per batch
EmbedDocumentsStart(texts) ==
    /\ doc.pc = "idle"
    /\ embed_calls < MaxEmbedCalls
    /\ embed_calls' = embed_calls + 1
    /\ DocumentsStarted(texts, DocLookups(texts, memory_cache, similarity_cache))
    /\ lastOp' = [NoOp EXCEPT !.op = "embedding"]
    /\ UNCHANGED <<batch_size, embed_cache, eq, compute_calls, returned,
                   nonEmbedVars>>

\* the results of a batch stored in the result cache, item after item
RECURSIVE StoreBatch(_, _, _, _)
StoreBatch(batch, vectors, mem, sim) ==
    IF batch = <<>> THEN [mem |-> mem, sim |-> sim]
    ELSE LET stored == StoreIn(mem, sim,
                               EmbeddingCacheKey(Head(batch).text, "document"),
                               Head(vectors))
         IN StoreBatch(Tail(batch), Tail(vectors), stored.mem, stored.sim)

\* `embeddings` with the entries of the batch set to the vectors
WithBatch(embeddings, batch, vectors) ==
    [i \in 1..Len(embeddings) |->
        IF \E k \in 1..Len(batch) : batch[k].idx = i
        THEN vectors[CHOOSE k \in 1..Len(batch) : batch[k].idx = i]
        ELSE embeddings[i]]

\* how `await asyncio.gather(*tasks)` stands after a batch task has ended:
\* the first exception of a task is raised to the caller at once, the other
\* tasks go on
GatherEnds(pending, failed) ==
    IF failed # {} THEN "raised"
    ELSE IF pending = {} THEN "returned" ELSE "waiting"

\* the call of embed_documents after the batch task b has ended, with the
\* embeddings list as that task left it
AfterBatch(b, embeddings, failed) ==
    LET pending == doc.pending \ {b}
        ends == IF doc.pc = "gathering" THEN GatherEnds(pending, failed) ELSE "over"
    IN
    /\ doc' = IF pending = {} THEN IdleDoc
              ELSE [doc EXCEPT !.pc = IF ends = "waiting" THEN "gathering"
                                      ELSE "abandoned",
                               !.embeddings = embeddings,
                               !.pending = pending,
                               !.failed = failed]
    /\ lastEmbed' =
          IF ends = "raised"
          THEN DocsEnded(doc.texts, "raised", <<>>, doc.batches, failed)
          ELSE IF ends = "returned"
          THEN DocsEnded(doc.texts, "returned", embeddings, doc.batches, failed)
          ELSE lastEmbed

\* _process_embedding_batch after the computation returned the vectors
BatchComputed(b, vectors) ==
    LET batch == doc.batches[b]
        stored == StoreBatch(batch, vectors, memory_cache, similarity_cache)
    IN
    /\ doc.pc \in {"gathering", "abandoned"}
    /\ b \in doc.pending
    /\ memory_cache' = stored.mem
    /\ similarity_cache' = stored.sim
    /\ embed_stats' = [embed_stats EXCEPT !.batch_requests = @ + 1,
                                          !.embeddings_created = @ + Len(batch)]
    /\ AfterBatch(b, WithBatch(doc.embeddings, batch, vectors), doc.failed)
    /\ lastOp' = [NoOp EXCEPT !.op = "embedding"]
    /\ UNCHANGED <<batch_size, embed_cache, eq, embed_calls, compute_calls,
                   returned, nonEmbedVars>>

\* _process_embedding_batch after the computation raised: the entries of the
\* batch are set to None and the exception is raised again
BatchFailed(b) ==
    LET batch == doc.batches[b] IN
    /\ doc.pc \in {"gathering", "abandoned"}
    /\ b \in doc.pending
    /\ AfterBatch(b, WithBatch(doc.embeddings, batch,
                               [k \in 1..Len(batch) |-> NoVector]),
                  doc.failed \cup {b})
    /\ UNCHANGED <<batch_size, embed_cache, embed_stats, eq, embed_calls,
                   compute_calls, returned, cacheVars, nonEmbedVars>>

\* time passes between two steps of the embeddings service
EmbedTick ==
    /\ memory_cache' = TTLAdvance(memory_cache, TickStep)
    /\ similarity_cache' = TTLAdvance(similarity_cache, TickStep)
    /\ lastOp' = [NoOp EXCEPT !.op = "tick"]
    /\ UNCHANGED <<embedVars, nonEmbedVars>>

\* the lists of queries passed to warm_cache
WarmLists == UNION {[1..n -> EmbedTexts] : n \in 1..MaxWarmQueries}

\* warm_cache(common_queries): one embed_query coroutine per entry of the
\* list, duplicates included, all handed to asyncio.gather
WarmCache(common_queries) ==
    /\ warm = <<>>
    /\ embed_calls = 0
    /\ \A p \in DOMAIN eq : eq[p].pc = "idle"
    /\ doc.pc = "idle"
    /\ warm' = common_queries
    /\ eq' = [p \in 1..Len(common_queries) |->
                 [pc |-> "idle", text |-> "", known |-> NoVector]]
    /\ UNCHANGED <<batch_size, embed_cache, embed_stats, doc, embed_calls,
                   compute_calls, returned, lastEmbed>>
    /\ UNCHANGED <<poolVars, compatVars, cacheVars, monitorVars, exportVars,
                   samplingVars, ragVars>>

\* gather runs the coroutines in the order of the list, each up to its first
\* suspension, before the event loop resumes any of them
WarmQueryStart ==
    LET p == embed_calls + 1 IN
    /\ p <= Len(warm)
    /\ EmbedQueryStart(p, warm[p])

\* every coroutine of the gather has run up to its first suspension
WarmAllStarted == warm # <<>> /\ embed_calls = Len(warm)

WarmNext ==
    \/ \E common_queries \in WarmLists : WarmCache(common_queries)
    \/ WarmQueryStart
    \/ \E p \in DOMAIN eq, v \in Vectors : WarmAllStarted /\ EmbedQueryComputed(p, v)
    \/ \E p \in DOMAIN eq : WarmAllStarted /\ EmbedQueryFailed(p)
    \/ EmbedTick

EmbedNext ==
    \/ \E p \in EmbedTasks, text \in EmbedTexts : EmbedQueryStart(p, text)
    \/ \E p \in EmbedTasks, v \in Vectors : EmbedQueryComputed(p, v)
    \/ \E p \in EmbedTasks : EmbedQueryFailed(p)
    \/ \E texts \in DocumentLists : EmbedDocumentsStart(texts)
    \/ \E b \in doc.pending :
          \E vectors \in [1..Len(doc.batches[b]) -> Vectors] : BatchComputed(b, vectors)
    \/ \E b \in doc.pending : BatchFailed(b)
    \/ EmbedTick

(***************************************************************************)
(* The /rag request handler (app.py, rag_query), in the configuration      *)
(* without the optimized embedding service: the search is one call of the  *)
(* retriever on the worker pool.                                           *)
(***************************************************************************)
\* the queries of the /rag requests
RagQueries == {Q_HB55, Q_HB55_padded, Q_hb55_about}

\* (time.time() - start_time) * 1000 of a request
RagDurations == {1000}

\* how the call of the chain ends: it returns a dictionary whose "result" is
\* a string, a dictionary without "result", a dictionary whose "result" is
\* not a string, or a value that is not a dictionary, or it raises
ChainShapes == {"dict_text", "dict_no_result", "dict_not_text", "not_dict", "raised"}

\* run_chain and the construction of final_result raise: the chain raised,
\* re.sub on a result that is not a string, chain_result.get on a value that
\* is not a dictionary
ChainRaises(shape) == shape \in {"dict_not_text", "not_dict", "raised"}

\* final_result["result"]: the enhanced string, or "No result generated"
FinalResult(docs) ==
    [result |-> "str", documents_found |-> docs, quality_metrics |-> FALSE]

\* (mutant) the analysis of the response raises
QualityAlwaysRaises(content) == TRUE

\* analyze_response_quality raises when the "result" of the response is not
\* a string (len, findall)
QualityRaises(content) == content.result # "str"

\* no handler is inside a run of statements without a suspension point
NoneRunning == \A m \in Requests : req[m].pc # "analysing"

\* what a handler step leaves alone in every case
RagFrame ==
    UNCHANGED <<poolVars, compatVars, embedVars, warmVars, exportVars,
                samplingVars, max_request_history, now, ticks, lastOp,
                vectorstore>>

\* the step calls performance_monitor.record_request / does not call it
RagRecords(cache_hit, error) ==
    \E d \in RagDurations : Recorded("/rag", d, cache_hit, error)

RagRecordsNothing ==
    UNCHANGED <<request_history, perf_stats, endpoint_stats, sum_durations, lastMon>>

\* request n ends on the given path after one more record_request call
RagEnds(n, q, path, final) ==
    req' = [req EXCEPT ![n] = [pc |-> "done", query |-> q,
                               documents_found |-> @.documents_found,
                               records |-> @.records + 1,
                               path |-> path, final |-> final]]

\* the `except Exception` block of the handler: lines 637-681
RagExcept(n, q) ==
    /\ RagRecords(FALSE, TRUE)
    /\ RagEnds(n, q, "failed", "none")

\* the handler of request n up to its first suspension point: the cache
\* lookup, the cache-hit return, the 503 return, or the start of the search
RagStart(n, q) ==
    LET got == GetRec(q, memory_cache, similarity_cache, 0) IN
    /\ req[n].pc = "new"
    /\ \A m \in Requests : m < n => req[m].pc # "new"
    /\ NoneRunning
    /\ memory_cache' = got.mem
    /\ similarity_cache' = got.sim
    /\ IF got.result = "RecursionError"
       THEN RagExcept(n, q)
       ELSE IF got.result # "absent"
       THEN /\ RagRecords(TRUE, FALSE)
            /\ RagEnds(n, q, "hit", got.result)
       ELSE IF ~vectorstore
       THEN /\ RagRecords(FALSE, TRUE)
            /\ RagEnds(n, q, "unavailable", "none")
       ELSE /\ req' = [req EXCEPT ![n].pc = "searching", ![n].query = q]
            /\ RagRecordsNothing
    /\ UNCHANGED <<heap, set_content>>
    /\ RagFrame

\* lines 580-598: final_result is built, cached when documents were found,
\* and the request is recorded
RagComputed(n, docs) ==
    LET obj == ObjectNames[n]
        content == FinalResult(docs)
        kept == StoreIn(memory_cache, similarity_cache, req[n].query, obj)
    IN
    /\ heap' = [heap EXCEPT ![obj] = content]
    /\ IF docs > 0
       THEN /\ memory_cache' = kept.mem
            /\ similarity_cache' = kept.sim
            /\ set_content' = [set_content EXCEPT ![obj] = content]
       ELSE UNCHANGED <<memory_cache, similarity_cache, set_content>>
    /\ RagRecords(FALSE, FALSE)
    /\ req' = [req EXCEPT ![n] = [pc |-> "analysing", query |-> @.query,
                                  documents_found |-> docs,
                                  records |-> @.records + 1,
                                  path |-> "computed", final |-> obj]]

\* the search returned `docs` documents: without documents run_chain returns
\* at once and the handler goes on to its end; otherwise the chain is started
RagSearched(n, docs) ==
    /\ req[n].pc = "searching"
    /\ NoneRunning
    /\ IF docs = 0
       THEN RagComputed(n, 0)
       ELSE /\ req' = [req EXCEPT ![n].pc = "generating", ![n].documents_found = docs]
            /\ RagRecordsNothing
            /\ UNCHANGED <<memory_cache, similarity_cache, heap, set_content>>
    /\ RagFrame

\* the search raised
RagSearchFailed(n) ==
    /\ req[n].pc = "searching"
    /\ NoneRunning
    /\ RagExcept(n, req[n].query)
    /\ UNCHANGED <<memory_cache, similarity_cache, heap, set_content>>
    /\ RagFrame

\* the call of the chain has ended
RagGenerated(n, shape) ==
    /\ req[n].pc = "generating"
    /\ NoneRunning
    /\ IF ChainRaises(shape)
       THEN /\ RagExcept(n, req[n].query)
            /\ UNCHANGED <<memory_cache, similarity_cache, heap, set_content>>
       ELSE RagComputed(n, req[n].documents_found)
    /\ RagFrame

\* lines 624-635, in the same run of statements as the record: the response
\* quality is analysed and final_result, the dictionary that was handed to
\* the cache, gets the key "quality_metrics"
RagQuality(n) ==
    /\ req[n].pc = "analysing"
    /\ IF QualityRaises(heap[req[n].final])
       THEN /\ RagExcept(n, req[n].query)
            /\ UNCHANGED heap
       ELSE /\ heap' = [heap EXCEPT ![req[n].final].quality_metrics = TRUE]
            /\ req' = [req EXCEPT ![n].pc = "done"]
            /\ RagRecordsNothing
    /\ UNCHANGED <<memory_cache, similarity_cache, set_content>>
    /\ RagFrame

RagNext ==
    \/ \E n \in Requests, q \in RagQueries : RagStart(n, q)
    \/ \E n \in Requests, docs \in 0..1 : RagSearched(n, docs)
    \/ \E n \in Requests : RagSearchFailed(n)
    \/ \E n \in Requests, shape \in ChainShapes : RagGenerated(n, shape)
    \/ \E n \in Requests : RagQuality(n)

(***************************************************************************)
(* Specifications                                                          *)
(***************************************************************************)
\* the steps of get_connection that the event loop runs by itself
AcquireStep(p) ==
    AcquireFirst(p) \/ CreateOk(p) \/ CreateFail(p) \/ Retry(p) \/ RaiseExhausted(p)

PoolNext ==
    \E p \in Tasks :
        \/ Start(p)
        \/ AcquireFirst(p)
        \/ CreateOk(p)
        \/ CreateFail(p)
        \/ Retry(p)
        \/ RaiseExhausted(p)
        \/ BlockEnds(p)
        \/ ReleaseFinally(p)

\* the result cache, unused, beside the other components
CacheQuiet == CacheInit

\* the monitor, unused, beside the other components
MonitorQuiet ==
    /\ MonitorInit
    /\ max_request_history = MaxRequestHistory

\* the embeddings service, unused, beside the other components
EmbedQuiet ==
    /\ EmbedInit
    /\ batch_size = MaxBatchSize

PoolSpecInit == PoolInit /\ CacheQuiet /\ MonitorQuiet /\ EmbedQuiet

PoolSpec == PoolSpecInit /\ [][PoolNext]_vars

\* callers that also use the explicit release_connection() of the pool
PoolCompatNext ==
    \/ PoolNext
    \/ \E p \in Tasks : ReleaseConnection(p)

PoolCompatSpec == PoolSpecInit /\ [][PoolCompatNext]_vars

\* The event loop resumes every coroutine that is ready: a sleep ends, and the
\* FIFO asyncio.Lock is granted to each waiter. The caller's block (BlockEnds)
\* and the arrival of calls (Start) are not under the pool's control.
PoolFairness == \A p \in Tasks : WF_vars(AcquireStep(p))

PoolFairSpec == PoolSpec /\ PoolFairness

\* the pool, unused, beside the other components
PoolQuiet ==
    /\ PoolInit
    /\ max_connections = MaxPoolLimit
    /\ retry_attempts = MaxRetryAttempts

CacheSpecInit == CacheInit /\ PoolQuiet /\ MonitorQuiet /\ EmbedQuiet

CacheSpec == CacheSpecInit /\ [][CacheNext]_vars

MonitorSpecInit == MonitorInit /\ PoolQuiet /\ CacheQuiet /\ EmbedQuiet

MonitorSpec == MonitorSpecInit /\ [][MonitorNext]_vars

ExportSpec == MonitorSpecInit /\ [][ExportNext]_vars

SamplingSpec == MonitorSpecInit /\ [][SamplingNext]_vars

\* the request handler on an empty cache, with or without a vector store
RagSpecInit ==
    /\ RagInit
    /\ memory_cache = EmptyCache
    /\ similarity_cache = EmptyCache
    /\ lastOp = NoOp
    /\ MonitorInit
    /\ max_request_history = MaxRequestHistory
    /\ PoolInit
    /\ max_connections = MaxPoolLimit
    /\ retry_attempts = MaxRetryAttempts
    /\ EmbedQuiet

RagSpec == RagSpecInit /\ [][RagNext]_vars

\* a monitor whose buffer holds the MaxWindow requests of the behaviour
PercentileSpecInit ==
    /\ max_request_history = MaxWindow
    /\ request_history = <<>>
    /\ perf_stats = [total_requests |-> 0, cache_hits |-> 0, cache_misses |-> 0,
                     total_errors |-> 0, avg_response_time_ms |-> <<0, 1>>]
    /\ endpoint_stats = [e \in Endpoints |-> NewEndpointStats]
    /\ now = 0
    /\ ticks = 0
    /\ sum_durations = 0
    /\ lastMon = NoQuery
    /\ export = NoExport
    /\ SamplingInit
    /\ PoolQuiet /\ CacheQuiet /\ EmbedQuiet

PercentileSpec == PercentileSpecInit /\ [][PercentileNext]_vars

\* the monitor of AlertSpec keeps one record
AlertSpecInit ==
    /\ MonitorInit
    /\ max_request_history = 1
    /\ PoolQuiet
    /\ CacheQuiet
    /\ EmbedQuiet

\* the embeddings service with the result cache it stores its vectors in
EmbedSpecInit == EmbedInit /\ CacheInit /\ PoolQuiet /\ MonitorQuiet

EmbedSpec == EmbedSpecInit /\ [][EmbedNext]_vars

WarmSpec == EmbedSpecInit /\ [][WarmNext]_vars

AlertSpec == AlertSpecInit /\ [][AlertNext]_vars

(***************************************************************************)
(* Scenario B: max_connections = 2, three tasks, one get_connection() each *)
(***************************************************************************)
ScenarioTasks == {1, 2, 3}

ScenarioBInit ==
    /\ PoolInit
    /\ CacheQuiet
    /\ MonitorQuiet
    /\ EmbedQuiet
    /\ max_connections = 2

StartOnce(p) == pc[p] = "idle" /\ Start(p)

ScenarioBNext ==
    \E p \in ScenarioTasks :
        \/ StartOnce(p)
        \/ AcquireFirst(p)
        \/ CreateOk(p)
        \/ CreateFail(p)
        \/ Retry(p)
        \/ RaiseExhausted(p)
        \/ BlockEnds(p)
        \/ ReleaseFinally(p)

ScenarioBSpec ==
    /\ ScenarioBInit
    /\ [][ScenarioBNext]_vars
    /\ \A p \in ScenarioTasks : WF_vars(AcquireStep(p))

(***************************************************************************)
(* Claims about the connection pool                                        *)
(***************************************************************************)

\* tasks whose call has yielded a connection that is not released yet
Holders == {p \in Tasks : pc[p] \in {"holding", "exiting"}}

\* C1: in every reachable state the number of in-use connections, and the
\* number of callers that were granted one, is at most max_connections.
C1_InUseWithinLimit ==
    /\ Cardinality(in_use) <= max_connections
    /\ Cardinality(Holders) <= max_connections
    /\ GetStats.active_connections <= GetStats.max_connections

\* C1 witness: the limit is reached and an excess caller is waiting in the retry loop
C1_Witness ==
    /\ max_connections = 2
    /\ Cardinality(in_use) = max_connections
    /\ \E p \in Tasks : pc[p] = "sleeping" /\ retry_count[p] > 0

\* C2: a call that yielded a connection keeps it in the in-use set while the
\* caller's block runs, and when the block has ended (normally or by an
\* exception) the finally block has removed it exactly once.
C2_ReleasedExactlyOnce ==
    \A p \in Tasks :
        /\ pc[p] \in {"holding", "exiting"} =>
              connection[p] \in in_use /\ released[p] = 0
        /\ pc[p] = "done" => released[p] = 1

\* C2 witness: a block that ended by an exception has been released
C2_Witness ==
    \E p \in Tasks : pc[p] = "done" /\ outcome[p] = "exception" /\ released[p] = 1

\* C3: when every successful acquire has been matched by its release (no call
\* holds a connection), get_stats reports active_connections = 0.
C3_ActiveReturnsToZero ==
    Holders = {} => GetStats.active_connections = 0

\* C3 witness: several connections were acquired and all of them released
C3_Witness ==
    /\ Holders = {}
    /\ Cardinality({p \in Tasks : pc[p] = "done"}) >= 2
    /\ stats.connections_created >= 2
    /\ GetStats.active_connections = 0

\* the three calls of scenario B are concurrent: all have made their first
\* attempt and none has been released
AllConcurrent ==
    /\ stats.connections_failed = 0
    /\ \A p \in ScenarioTasks : pc[p] \in {"holding", "exiting", "sleeping", "failed"}

\* C4: with max_connections = 2 and three concurrent calls, exactly two are
\* granted a connection immediately and the third is not granted while both
\* are held; once one of the two has been released while the third still has
\* retries left, the third call obtains the connection.
C4_ScenarioB ==
    /\ [](AllConcurrent =>
            /\ Cardinality({p \in ScenarioTasks : immediate[p]}) = 2
            /\ \A p \in ScenarioTasks : immediate[p] <=> pc[p] \in {"holding", "exiting"})
    /\ [](Cardinality(Holders) <= 2)
    /\ \A p \in ScenarioTasks :
          (pc[p] = "sleeping" /\ MayRetry(p) /\ stats.connections_failed = 0
              /\ \E q \in ScenarioTasks \ {p} : pc[q] = "done")
          ~> (pc[p] = "holding" /\ ~immediate[p])

\* C4 witness: the third call received, in a retry, the connection that one of
\* the first two released
C4_Witness ==
    /\ stats.connections_failed = 0
    /\ \E p \in ScenarioTasks :
          /\ pc[p] = "holding" /\ ~immediate[p] /\ retry_count[p] > 0
          /\ \E q \in ScenarioTasks \ {p} : pc[q] = "done" /\ released[q] = 1

C6_SetThenGet ==
    (lastOp.op = "get" /\ lastOp.prev # "none") => lastOp.result = lastOp.prev

\* C6 witness: the round trip on a full cache, for a query with upper case and
\* outer whitespace
C6_Witness ==
    /\ lastOp.op = "get"
    /\ lastOp.query = Q_HB55_padded
    /\ lastOp.prev = "P2"
    /\ lastOp.result = "P2"
    /\ Len(memory_cache.list) = MemoryCacheSize

\* Jaccard similarity of the normalized token sets of two queries, >= 0.8 and > 0.8
JaccardAtLeast80(q1, q2) ==
    LET a == Words(CollapseWhitespace(StrStrip(StrLower(q1))))
        b == Words(CollapseWhitespace(StrStrip(StrLower(q2))))
    IN a \cup b # {} /\ 5 * Cardinality(a \cap b) >= 4 * Cardinality(a \cup b)

JaccardAbove80(q1, q2) ==
    LET a == Words(CollapseWhitespace(StrStrip(StrLower(q1))))
        b == Words(CollapseWhitespace(StrStrip(StrLower(q2))))
    IN a \cup b # {} /\ 5 * Cardinality(a \cap b) > 4 * Cardinality(a \cup b)

\* set(q1, R) was called and both of q1's entries are still live
EntryLive(q1) ==
    /\ TTLContains(memory_cache, CacheKey(q1))
    /\ TTLContains(similarity_cache, NormalizeQuery(q1))
    /\ CacheKey(TTLValue(similarity_cache, NormalizeQuery(q1))) = CacheKey(q1)

\* no entry other than q1's answers get(q2) first: q2 has no live exact entry
\* of its own, and no other live similarity entry exceeds the threshold for q2
NothingElseMatches(q1, q2) ==
    /\ TTLContains(memory_cache, CacheKey(q2)) => CacheKey(q2) = CacheKey(q1)
    /\ \A e \in Range(TTLLive(similarity_cache)) :
          e.key # NormalizeQuery(q1) => ~JaccardAbove80(q2, e.key)

\* C7 as stated: for all Q1, Q2 with Jaccard similarity >= 0.8, if Q1's entry
\* is live then get(Q2) returns Q1's response.
C7_SimilarAtLeast80 ==
    lastOp.op = "get" =>
        \A q1 \in Queries :
            (EntryLive(q1) /\ JaccardAtLeast80(q1, lastOp.query))
            => lastOp.result = TTLValue(memory_cache, CacheKey(q1))

\* C7 as amended: for all Q1, Q2 with Jaccard similarity strictly above 0.8, if
\* Q1's exact and similarity entries are live and no other entry answers Q2
\* first, then get(Q2) returns Q1's response.
C7_SimilarAbove80 ==
    lastOp.op = "get" =>
        \A q1 \in Queries :
            (/\ EntryLive(q1)
             /\ JaccardAbove80(q1, lastOp.query)
             /\ NothingElseMatches(q1, lastOp.query))
            => lastOp.result = TTLValue(memory_cache, CacheKey(q1))

\* C7 witness: a query with Jaccard similarity 5/6 to the stored one is
\* answered from the similarity tier
C7_Witness ==
    /\ lastOp.op = "get"
    /\ lastOp.query = Q_hb55_about_now
    /\ EntryLive(Q_hb55_about)
    /\ NothingElseMatches(Q_hb55_about, Q_hb55_about_now)
    /\ lastOp.tier = "similarity"
    /\ lastOp.result = TTLValue(memory_cache, CacheKey(Q_hb55_about))

\* the cache right after set("What is HB 55?", P) on an empty cache
AfterScenarioASet(P) ==
    /\ Len(memory_cache.list) = 1
    /\ memory_cache.list[1].value = P
    /\ memory_cache.list[1].left = MemoryTTL
    /\ Len(similarity_cache.list) = 1
    /\ similarity_cache.list[1].value = Q_HB55
    /\ similarity_cache.list[1].left = SimilarityTTL

\* C8 as stated: after set("What is HB 55?", P) on an empty cache,
\* get("what is hb 55") misses the exact tier, hits the similarity tier and
\* returns P.
C8_ScenarioA_Stated ==
    \A P \in Payloads :
        (AfterScenarioASet(P) /\ lastOp.op = "get" /\ lastOp.query = Q_hb55)
        => (lastOp.tier = "similarity" /\ lastOp.result = P)

\* C8 as amended: after set("What is HB 55?", P) on an empty cache,
\* get("what is hb 55") misses both tiers and returns absent (the token "55?"
\* differs from "55", Jaccard 3/5); the case/whitespace variant
\* get("what  is hb 55?") misses the exact tier, hits the similarity tier and
\* returns P.
C8_ScenarioA ==
    \A P \in Payloads :
        (AfterScenarioASet(P) /\ lastOp.op = "get") =>
            /\ lastOp.query = Q_hb55 =>
                  (lastOp.tier = "none" /\ lastOp.result = "absent")
            /\ lastOp.query = Q_hb55_spaced =>
                  (lastOp.tier = "similarity" /\ lastOp.result = P)

\* C8 witness: the case/whitespace variant was answered from the similarity tier
C8_Witness ==
    /\ AfterScenarioASet("P1")
    /\ lastOp.op = "get"
    /\ lastOp.query = Q_hb55_spaced
    /\ lastOp.tier = "similarity"
    /\ lastOp.result = "P1"

\* C9: a get whose matching similarity entry points to an exact-tier entry
\* that is gone returns absent (no exception, no non-termination).
C9_StaleEntryIsMiss ==
    (lastOp.op = "get" /\ lastOp.stale) => lastOp.result = "absent"

\* C10: the exact tier never holds more than memory_cache_size entries and the
\* similarity index never more than its maxsize; a set at capacity evicts.
C10_WithinCapacity ==
    /\ Len(memory_cache.list) <= MemoryCacheSize
    /\ Len(memory_cache.links) <= MemoryCacheSize
    /\ Len(similarity_cache.list) <= SimilarityMaxSize
    /\ Len(similarity_cache.links) <= SimilarityMaxSize

\* C10 witness: a set on full tiers evicted and left both tiers at capacity
C10_Witness ==
    /\ lastOp.op = "set"
    /\ lastOp.evicted
    /\ Len(memory_cache.list) = MemoryCacheSize
    /\ Len(similarity_cache.list) = SimilarityMaxSize

(***************************************************************************)
(* Further claims about the connection pool                                *)
(***************************************************************************)
\* the step in which the finally block of p's call takes its connection out of
\* the in-use set
Releases(p) ==
    /\ pc[p] = "exiting"
    /\ pc'[p] = "done"
    /\ released'[p] = released[p] + 1

\* C19: for every max_connections, a released connection goes back to the idle
\* pool exactly when the idle pool holds fewer than max_connections / 2
\* connections (the exact half: 2 * idle < max_connections), and is discarded
\* otherwise.
C19_KeptBelowExactHalf ==
    [][\A p \in Tasks :
          Releases(p) =>
              ((pool' = Append(pool, connection[p]))
                  <=> (2 * Len(pool) < max_connections))]_vars

\* C20: the lock is not held while a connection is being created, and not
\* while the caller uses its connection.
C20_LockOnlyForStateStep ==
    \A p \in Tasks : pc[p] \in {"creating", "holding"} => lock # p

(***************************************************************************)
(* Claims about the performance monitor                                    *)
(***************************************************************************)
\* C13: after K >= 1 recorded requests the running avg_response_time_ms equals
\* (d1 + ... + dK) / K (in exact arithmetic: avg * K = d1 + ... + dK).
C13_RunningAverageIsMean ==
    perf_stats.total_requests >= 1 =>
        perf_stats.avg_response_time_ms[1] * perf_stats.total_requests
            = sum_durations * perf_stats.avg_response_time_ms[2]

\* C13 witness: three requests with durations 1000, 1000, 3000 in some order
C13_Witness ==
    /\ perf_stats.total_requests = 3
    /\ sum_durations = 5000
    /\ perf_stats.avg_response_time_ms = <<5000, 3>>

\* the positions in the buffer of the records that lie in the window of `hours`
InWindow(hours) ==
    {i \in 1..Len(request_history) :
        now - request_history[i].timestamp <= hours * 3600}

\* the positions in the buffer of the error=true records
ErrorRecords == {i \in 1..Len(request_history) : request_history[i].error}

\* C14: the error rate of a summary returned by get_performance_summary(hours)
\* equals the number of error=true records of the buffer in the window divided
\* by the number of all records of the buffer in the window.
C14_ErrorRateOfWindow ==
    (lastMon.op = "summary" /\ lastMon.result.kind = "summary") =>
        /\ InWindow(lastMon.hours) # {}
        /\ lastMon.result.error_rate[1] * Cardinality(InWindow(lastMon.hours))
              = Cardinality(InWindow(lastMon.hours) \cap ErrorRecords)
                    * lastMon.result.error_rate[2]

\* C14 witness: a summary over a window that holds an error record and leaves
\* out an older error record of the buffer
C14_Witness ==
    /\ lastMon.op = "summary"
    /\ lastMon.result.kind = "summary"
    /\ InWindow(lastMon.hours) \cap ErrorRecords # {}
    /\ ErrorRecords \ InWindow(lastMon.hours) # {}
    /\ lastMon.result.error_rate = <<1, 1>>

\* the alert of the given type is in the list of the last summary
Alerted(type, severity) ==
    [type |-> type, severity |-> severity] \in lastMon.result.performance_alerts

C16_NoDataOrSummary ==
    lastMon.op = "summary" =>
        lastMon.result.kind =
            IF InWindow(lastMon.hours) = {} THEN "no_data" ELSE "summary"

\* C17: get_real_time_stats reports requests_per_second = (number of records
\* of the last 5 minutes) / 300.
C17_RequestsPerSecond ==
    lastMon.op = "real_time" =>
        lastMon.result.requests_per_second[1] * 300
            = lastMon.result.active_requests * lastMon.result.requests_per_second[2]

\* C18: the buffer holds min(number recorded, capacity) records, and they are
\* the most recently recorded ones in recording order.
C18_BufferKeepsMostRecent ==
    LET n == Len(request_history) IN
    /\ n = IF perf_stats.total_requests < max_request_history
           THEN perf_stats.total_requests ELSE max_request_history
    /\ \A i \in 1..n :
          request_history[i].seq = perf_stats.total_requests - n + i

\* C18 witness: a buffer of capacity 2 that has dropped its oldest record
C18_Witness ==
    /\ max_request_history = 2
    /\ perf_stats.total_requests = 3
    /\ Len(request_history) = 2
    /\ request_history[1].seq = 2
    /\ request_history[2].seq = 3

(***************************************************************************)
(* Claims about the embeddings service                                     *)
(***************************************************************************)
\* C11: an embed_query call for a text that an earlier, finished embed_query
\* call returned a vector for returns that same vector from the cache and issues
\* no call to the compute collaborator; the call that returned the first vector
\* issued one. Two sequential calls with the same text thus issue exactly one
\* compute call.
C11_SecondCallFromCache ==
    lastEmbed.op = "embed_query" =>
        /\ lastEmbed.known # NoVector =>
              /\ lastEmbed.kind = "returned"
              /\ lastEmbed.result = <<lastEmbed.known>>
              /\ ~lastEmbed.computed
        /\ (lastEmbed.known = NoVector /\ lastEmbed.kind = "returned") =>
              lastEmbed.computed

\* C11 witness: the second of two embed_query calls with the same text has
\* returned; one compute call was issued for the text
C11_Witness ==
    /\ lastEmbed.op = "embed_query"
    /\ lastEmbed.known # NoVector
    /\ lastEmbed.kind = "returned"
    /\ ~lastEmbed.computed
    /\ embed_calls = 2
    /\ \E t \in EmbedTexts : lastEmbed.input = <<t>> /\ compute_calls[t] = 1
    /\ embed_stats.cache_hits = 1
    /\ embed_stats.embeddings_created = 1

\* C12: when a batch of an embed_documents call with several batches fails,
\* the call still returns to its caller, with the vectors of the other batches.
C12_OtherBatchesReturned ==
    (/\ lastEmbed.op = "embed_documents"
     /\ Len(lastEmbed.batches) >= 2
     /\ lastEmbed.failed # {}) =>
        /\ lastEmbed.kind = "returned"
        /\ \A b \in (1..Len(lastEmbed.batches)) \ lastEmbed.failed :
              \A k \in 1..Len(lastEmbed.batches[b]) :
                  lastEmbed.result[lastEmbed.batches[b][k].idx] \in Vectors

\* a pass of the retry loop of p's call
RetryPass(p) ==
    /\ pc[p] = "sleeping"
    /\ retry_count'[p] = retry_count[p] + 1

\* C27: a retry of an acquire that finds the in-use count below max_connections
\* obtains a connection (and so an acquire fails only when every attempt found
\* the in-use count at max_connections).
C27_RetryUnderLimitObtains ==
    [][\A p \in Tasks :
          (RetryPass(p) /\ Cardinality(in_use) < max_connections) =>
              connection'[p] # None]_vars

\* C21: release_connection(c) of a checked-out connection c takes c out of the
\* in-use set and makes it available: the in-use count goes down by one and the
\* available count up by one.
C21_ReleaseReturnsConnection ==
    lastRelease.made =>
        /\ lastRelease.in_use_after = lastRelease.in_use_before - 1
        /\ lastRelease.available_after = lastRelease.available_before + 1

\* the embed_query calls for text t that wait for their computation
InFlight(t) == {p \in DOMAIN eq : eq[p].pc = "computing" /\ eq[p].text = t}

\* C22: when several embed_query calls for the same text are in flight at the
\* same time, the computation was requested exactly once for that text.
C22_ConcurrentCallsComputeOnce ==
    \A t \in EmbedTexts :
        Cardinality(InFlight(t)) >= 2 => compute_calls[t] = 1

\* C23: the exported totals, per-endpoint stats and request history describe
\* one state of the monitor: the exported total_requests is cache_hits +
\* cache_misses, is the sum of the exported per-endpoint request counts, and,
\* while the buffer is under capacity, is the length of the exported history.
C23_ExportIsSnapshot ==
    export.file.written =>
        LET f == export.file IN
        /\ f.stats.total_requests = f.stats.cache_hits + f.stats.cache_misses
        /\ \A e \in DOMAIN f.endpoint_stats :
              f.endpoint_stats[e].requests =
                  Cardinality({i \in 1..Len(f.request_history) :
                                  f.request_history[i].endpoint = e})
              \/ f.stats.total_requests > max_request_history
        /\ \/ f.stats.total_requests = Len(f.request_history)
           \/ f.stats.total_requests > max_request_history

(***************************************************************************)
(* Further claims about the result cache                                   *)
(***************************************************************************)
\* C26: after clear_cache both tiers are empty and get_cached_result returns
\* absent for every query, also for queries similar to ones stored before,
\* until the next set_cached_result.
C26_ClearedUntilNextSet ==
    lastOp.cleared =>
        /\ memory_cache = EmptyCache
        /\ similarity_cache = EmptyCache
        /\ \A q \in Queries :
              GetRec(q, memory_cache, similarity_cache, 0).result = "absent"
        /\ lastOp.op = "get" => lastOp.result = "absent"

\* a get, after a clear that dropped entries, of a query similar to a query
\* that was stored before
C26_Witness ==
    /\ lastOp.cleared
    /\ lastOp.op = "get"
    /\ lastOp.result = "absent"
    /\ \E q1 \in lastOp.dropped :
          /\ q1 # lastOp.query
          /\ Matches[NormOf[lastOp.query]][NormOf[q1]]

(***************************************************************************)
(* Further claims about the performance monitor                            *)
(***************************************************************************)
\* the largest element of a non-empty sequence of numbers
MaxOf(s) == CHOOSE x \in Range(s) : \A y \in Range(s) : y <= x

\* C28: for every non-empty window of n durations the positions int(0.95 * n)
\* and int(0.99 * n) are inside the sorted list (the summary is computed, no
\* IndexError), and p95 <= p99 <= the largest duration of the window.
C28_PercentilesInRange ==
    (lastMon.op = "summary" /\ lastMon.hours > 0
        /\ RecentRequests(now - lastMon.hours * SecondsPerHour) # <<>>) =>
        /\ lastMon.result.kind = "summary"
        /\ lastMon.result.p95_ms <= lastMon.result.p99_ms
        /\ lastMon.result.p99_ms <=
              MaxOf(Durations(RecentRequests(now - lastMon.hours * SecondsPerHour)))

\* a window of 21 durations whose two percentiles are different records
C28_Witness ==
    /\ lastMon.op = "summary"
    /\ lastMon.result.kind = "summary"
    /\ lastMon.result.total_requests = MaxWindow
    /\ lastMon.result.p95_ms < lastMon.result.p99_ms

\* C30: the alert list of a summary agrees with the rates of that summary: the
\* error-severity alert is present exactly when the summary's error_rate is
\* above 0.05, and the cache warning exactly when its hit_rate is below 0.70.
C30_AlertsAgreeWithSummaryRates ==
    (lastMon.op = "summary" /\ lastMon.result.kind = "summary") =>
        /\ Alerted("error_rate", "error")
              <=> 20 * lastMon.result.error_rate[1] > lastMon.result.error_rate[2]
        /\ Alerted("cache_performance", "warning")
              <=> 10 * lastMon.result.hit_rate[1] < 7 * lastMon.result.hit_rate[2]

\* C25: at most one task that takes snapshots exists at any time (a
\* start_monitoring while monitoring starts no second one), and from a
\* stop_monitoring on, so also after it has completed, no snapshot is appended
\* to system_history until start_monitoring is called again.
C25_OneSamplerStoppedQuiet ==
    /\ [](Cardinality(Samplers) <= 1)
    /\ [][~monitoring => system_history' = system_history]_vars

\* a stop_monitoring has completed after a task took a snapshot, and a second
\* task was started since and took one too
C25_Witness ==
    /\ lastSampling = "stop_completed"
    /\ ~monitoring
    /\ Samplers = {}
    /\ Len(system_history) = 2
    /\ system_history[1] # system_history[2]

(***************************************************************************)
(* Claims about the request handler                                        *)
(***************************************************************************)
\* the entries of the exact tier
CachedEntries == Range(memory_cache.list)

\* C24: the content of a cache entry is changed by the cache only: what is
\* in the cache for a query is the content that set_cached_result was given.
C24_EntryIsWhatWasSet ==
    \A e \in CachedEntries : heap[e.value] = set_content[e.value]

\* the number of record_request calls the handlers have made
RECURSIVE RecordsUpTo(_)
RecordsUpTo(n) == IF n = 0 THEN 0 ELSE req[n].records + RecordsUpTo(n - 1)

\* C29: every /rag request makes exactly one record_request call, on each of
\* its paths (cache hit, vector store unavailable, computed, failed): a
\* request that has ended has made one, no request makes more than one, and
\* the monitor has counted exactly these.
C29_OneMetricPerRequest ==
    /\ \A n \in Requests :
          /\ req[n].records <= 1
          /\ req[n].pc = "done" => req[n].records = 1
    /\ perf_stats.total_requests = RecordsUpTo(MaxRagRequests)

\* a computed request, a cache hit and a failed request have ended
C29_Witness ==
    /\ \A n \in Requests : req[n].pc = "done" /\ req[n].records = 1
    /\ \E n \in Requests : req[n].path = "computed"
    /\ \E n \in Requests : req[n].path = "hit"
    /\ \E n \in Requests : req[n].path = "failed"

====
